---- MODULE Spec2Model ----
(***************************************************************************)
(* Aggregation pipeline of the tennis scoreboard: the client's aggregation *)
(* cycle (fetchLeaguesAndScores) in its four revisions, the server         *)
(* handlers it talks to (/api/leagues, /api/scoreboard/:slug,              *)
(* /api/odds/:league/:eventId) in their revisions, and the grouping        *)
(* builders that turn an event list into the presented hierarchy.          *)
(***************************************************************************)
EXTENDS Integers, Sequences, FiniteSets, TLC

VARIABLES
    client,        \* which revision of the client component is running
    leaguesServer, \* which revision of the leagues endpoint answers
    sbServer,      \* which revision of the scoreboard endpoint answers
    oddsServer,    \* which revision of the odds endpoint answers
    pc,            \* position of fetchLeaguesAndScores
    leagues,       \* useState: leagues
    scores,        \* useState: scores   (league id -> events)
    odds,          \* useState: odds     (competition/event id -> pair)
    loading,       \* useState: loading
    error,         \* useState: error    ("null" or the message)
    leaguesReq,    \* the /api/leagues request of the running cycle
    sbReqs,        \* the /api/scoreboard requests of the running cycle
    oddsReqs,      \* the /api/odds requests of the running cycle
    events,        \* the event list the grouping builder is given
    now,           \* new Date() at the time of the build, in days
    buildPc,       \* position of the grouping builder
    cursor,        \* index of the event the builder's loop takes next
    map,           \* const map = new Map() of the builder
    tournaments,   \* what the builder returned last
    builds,        \* how many times the builder has returned
    previous,      \* what the builder returned the time before
    rendered,      \* whether the league list has been rendered
    presented,     \* the leagues the render shows, in the order it shows them
    arg,           \* the value americanOddsToPercentage is called with
    result,        \* what it returned
    loadPc,        \* position of load, the cycle of the single-source client
    directReq,     \* its request to the provider's scoreboard
    proxyReq,      \* its request to /api/scoreboard/atp
    cycle,         \* how many cycles the Refresh control has started
    collapsedGroups, \* useState: the grouping keys whose flag is true
    resolverPc,    \* position of the handler of api/leagues.js
    prefix,        \* refs: the first references of the directory
    refFetches,    \* the promises refs.map made, one per reference
    completed,     \* the references in the order their fetches settled
    response       \* what the handler answered

\* state of the aggregation cycle
cycleVars == <<client, leaguesServer, sbServer, oddsServer, pc, leagues, scores, odds,
               loading, error, leaguesReq, sbReqs, oddsReqs>>

\* state of the grouping builder
buildVars == <<events, now, buildPc, cursor, map, tournaments, builds, previous>>

\* state of the other parts
\* state of the league resolver as it runs
resolveVars == <<resolverPc, prefix, refFetches, completed, response>>

extraVars == <<collapsedGroups, resolveVars>>

otherVars == <<rendered, presented, arg, result, loadPc, directReq, proxyReq, cycle,
               extraVars>>

vars == <<cycleVars, buildVars, otherVars>>

(***************************************************************************)
(* Bounds of the model.                                                    *)
(***************************************************************************)
MaxItems == 3       \* longest items list the odds provider answers with
MaxEvents == 1      \* most events in one upstream scoreboard
MaxRefs == 2        \* most references in the upstream league directory

(***************************************************************************)
(* JavaScript values of the odds fields: undefined, null or a number.      *)
(* A field that is undefined is dropped by JSON serialisation and reads    *)
(* back as undefined, so "undefined" also stands for a missing field.      *)
(***************************************************************************)
Undef == [k |-> "undefined", n |-> 0]
Null == [k |-> "null", n |-> 0]
Num(x) == [k |-> "number", n |-> x]

Prices == {-200, 150}
JSVals == {Undef, Null} \cup {Num(x) : x \in Prices}

\* a ?? b
Coalesce(a, b) == IF a.k \in {"undefined", "null"} THEN b ELSE a

\* All sequences over S of length at most n.
SeqsUpTo(S, n) == UNION {[1..m -> S] : m \in 0..n}

RECURSIVE Concat(_)
Concat(ss) == IF ss = <<>> THEN <<>> ELSE Head(ss) \o Concat(Tail(ss))

(***************************************************************************)
(* The odds provider.  One answer of                                       *)
(* <provider>/leagues/<league>/events/<id>/competitions/<id>/odds :        *)
(*   net    "ok" | "reject"     the server's fetch resolves or rejects     *)
(*   ok     r.ok                                                           *)
(*   body   "object" | "null" | "badjson"   what r.json() yields           *)
(*   hasItems, items            data.items                                 *)
(* A market entry is reduced to the two values the handlers read:          *)
(* homeTeamOdds?.current?.moneyLine?.american and the away counterpart.    *)
(***************************************************************************)
MarketEntries ==
    { [home |-> Num(150), away |-> Num(-200)],
      [home |-> Undef, away |-> Null] }

NoItems == <<>>

OddsUpstream ==
    { [net |-> "reject", ok |-> FALSE, body |-> "badjson", hasItems |-> FALSE, items |-> NoItems],
      [net |-> "ok", ok |-> FALSE, body |-> "object", hasItems |-> FALSE, items |-> NoItems],
      [net |-> "ok", ok |-> TRUE, body |-> "badjson", hasItems |-> FALSE, items |-> NoItems],
      [net |-> "ok", ok |-> TRUE, body |-> "null", hasItems |-> FALSE, items |-> NoItems],
      [net |-> "ok", ok |-> TRUE, body |-> "object", hasItems |-> FALSE, items |-> NoItems] }
    \cup
    { [net |-> "ok", ok |-> TRUE, body |-> "object", hasItems |-> TRUE, items |-> its] :
        its \in SeqsUpTo(MarketEntries, MaxItems) }

\* The body of an /api/odds answer as the client parses it: null, or an
\* object whose home and away read as the given values.
NullBody == [k |-> "null", home |-> Undef, away |-> Undef]
PairBody(h, a) == [k |-> "pair", home |-> h, away |-> a]

\* The market the handler of api/odds reads: items[2].
OddsIndexApi == 2
\* The market the express server reads: items[0].
OddsIndexExpress == 0

\* api/odds with the bounds check replaced by optional chaining on the entry
oddsHandlerApiUnchecked(up) ==
    IF up.net = "reject" THEN NullBody
    ELSE IF ~up.ok THEN NullBody
    ELSE IF up.body = "badjson" THEN NullBody
    ELSE IF up.body = "null" THEN NullBody
    ELSE IF ~up.hasItems \/ Len(up.items) < OddsIndexApi + 1 THEN PairBody(Null, Null)
    ELSE LET o == up.items[OddsIndexApi + 1]
         IN  PairBody(Coalesce(o.home, Null), Coalesce(o.away, Null))

\* api/odds/[league]/[eventId].js
oddsHandlerApi(up) ==
    IF up.net = "reject" THEN NullBody                    \* catch
    ELSE IF ~up.ok THEN NullBody                          \* !r.ok
    ELSE IF up.body = "badjson" THEN NullBody             \* r.json() throws, catch
    ELSE IF up.body = "null" \/ ~up.hasItems THEN NullBody   \* !data?.items?.length
    ELSE IF Len(up.items) = 0 \/ Len(up.items) < OddsIndexApi + 1 THEN NullBody
    ELSE LET o == up.items[OddsIndexApi + 1]
         IN  PairBody(Coalesce(o.home, Null), Coalesce(o.away, Null))

\* server/index.js, app.get("/api/odds/:league/:eventId")
oddsHandlerExpress(up) ==
    IF up.net = "reject" THEN NullBody                    \* catch
    ELSE IF up.body = "badjson" THEN NullBody             \* r.json() throws, catch
    ELSE IF up.body = "null" THEN NullBody                \* data.items throws, catch
    ELSE IF ~up.hasItems \/ Len(up.items) < OddsIndexExpress + 1 THEN NullBody   \* !item
    ELSE LET item == up.items[OddsIndexExpress + 1]
         IN  PairBody(item.home, item.away)

OddsServers == {"api", "express"}

oddsHandler(server, up) ==
    IF server = "api" THEN oddsHandlerApi(up) ELSE oddsHandlerExpress(up)

(***************************************************************************)
(* Events of the upstream scoreboards.  A competition carries its id and   *)
(* what odds[0].moneyline holds: ml.present is whether odds?.[0]?.moneyline*)
(* is there, ml.home is moneyline.home?.open?.odds, ml.away likewise.      *)
(***************************************************************************)
NoMoneyline == [present |-> FALSE, home |-> Undef, away |-> Undef]
Moneyline(h, a) == [present |-> TRUE, home |-> h, away |-> a]

Comp(id, ml) == [id |-> id, ml |-> ml]

\* a grouped (tennis style) event: one grouping with two competitions
EventA1 ==
    [id |-> "e1",
     groupings |-> << [competitions |-> << Comp("c1", Moneyline(Num(-200), Undef)),
                                            Comp("c2", NoMoneyline) >>] >>,
     competitions |-> <<>>]
\* a grouped event whose first competition has no embedded odds
EventA2 ==
    [id |-> "e2",
     groupings |-> << [competitions |-> << Comp("c3", NoMoneyline) >>] >>,
     competitions |-> <<>>]
\* a flat (team-sport style) event: competitions at event level
EventB1 ==
    [id |-> "e3",
     groupings |-> <<>>,
     competitions |-> << Comp("c4", Moneyline(Null, Num(150))) >>]

\* What the client does with the body of /api/odds and the embedded odds of
\* the item: the entry it returns to Promise.all, has = FALSE for null.
NoEntry == [has |-> FALSE, key |-> "", pair |-> PairBody(Undef, Undef)]
Entry(key, pair) == [has |-> TRUE, key |-> key, pair |-> pair]

\* the fallback without "?? null"
fallbackOddsRaw(item) ==
    IF item.ml.present
    THEN Entry(item.key, PairBody(item.ml.home, item.ml.away))
    ELSE NoEntry

\* const moneyline = ...; if (moneyline) return [id, {home ?? null, away ?? null}]; return null
fallbackOdds(item) ==
    IF item.ml.present
    THEN Entry(item.key, PairBody(Coalesce(item.ml.home, Null), Coalesce(item.ml.away, Null)))
    ELSE NoEntry

\* the callback trying the embedded odds before the endpoint's answer
resolveOddsEmbeddedFirst(item, threw, data) ==
    IF item.ml.present THEN fallbackOdds(item)
    ELSE IF ~threw /\ data.k # "null" /\ (data.home.k # "null" \/ data.away.k # "null")
    THEN Entry(item.key, data)
    ELSE NoEntry

\* the async callback of oddsPairs in App.jsx, part_004 and part_001:
\* threw = the fetch rejected or res.json() threw
resolveOddsWithFallback(item, threw, data) ==
    IF threw THEN fallbackOdds(item)
    ELSE IF data.k # "null" /\ (data.home.k # "null" \/ data.away.k # "null")
    THEN Entry(item.key, data)
    ELSE fallbackOdds(item)

\* the async callback of oddsPairs in part_003: no fallback
resolveOddsPlain(item, threw, data) ==
    IF threw THEN NoEntry
    ELSE IF data.k # "null" THEN Entry(item.key, data)
    ELSE NoEntry

Clients == {"App", "part_001", "part_003", "part_004"}

resolveOdds(c, item, threw, data) ==
    IF c = "part_003" THEN resolveOddsPlain(item, threw, data)
    ELSE resolveOddsWithFallback(item, threw, data)

(***************************************************************************)
(* The scoreboard provider.  One answer of <provider>/<slug>/scoreboard:   *)
(* net, ok and body as for the odds provider; ev is data.events, which is  *)
(* undefined, a (non-empty) string or an array of events.                  *)
(***************************************************************************)
UndefEv == [k |-> "undefined", list |-> <<>>]
StringEv == [k |-> "string", list |-> <<>>]
ArrayEv(l) == [k |-> "array", list |-> l]

\* the events the provider knows for a league slug
ScoreboardEvents(slug) ==
    IF slug = "atp" THEN {EventA1, EventA2}
    ELSE IF slug = "wta" THEN {EventB1}
    ELSE {}

\* event lists without repetition, of at most MaxEvents events
EventLists(slug) ==
    { l \in SeqsUpTo(ScoreboardEvents(slug), MaxEvents) :
        \A i, j \in 1..Len(l) : i # j => l[i] # l[j] }

ScoreboardUpstream(slug) ==
    { [net |-> "reject", ok |-> FALSE, body |-> "badjson", ev |-> UndefEv],
      [net |-> "ok", ok |-> FALSE, body |-> "object", ev |-> UndefEv],
      [net |-> "ok", ok |-> TRUE, body |-> "badjson", ev |-> UndefEv],
      [net |-> "ok", ok |-> TRUE, body |-> "null", ev |-> UndefEv] }
    \cup
    ( IF ScoreboardEvents(slug) = {} THEN {}
      ELSE { [net |-> "ok", ok |-> TRUE, body |-> "object", ev |-> UndefEv],
             [net |-> "ok", ok |-> TRUE, body |-> "object", ev |-> StringEv] }
           \cup
           { [net |-> "ok", ok |-> TRUE, body |-> "object", ev |-> ArrayEv(l)] :
               l \in EventLists(slug) } )

\* The body of an /api/scoreboard answer as the client parses it:
\* an object {events: ev}, a bare array, a bare string or null.
Wrapped(ev) == [shape |-> "object", ev |-> ev]
Bare(ev) ==
    IF ev.k = "array" THEN [shape |-> "array", ev |-> ev]
    ELSE [shape |-> "string", ev |-> UndefEv]
NullData == [shape |-> "null", ev |-> UndefEv]

\* api/scoreboard/[slug].js
scoreboardHandlerSlug(up) ==
    IF up.net = "reject" THEN Wrapped(ArrayEv(<<>>))        \* catch
    ELSE IF ~up.ok THEN Wrapped(ArrayEv(<<>>))              \* !r.ok
    ELSE IF up.body \in {"badjson", "null"} THEN Wrapped(ArrayEv(<<>>))   \* catch
    ELSE IF up.ev.k = "array" THEN Wrapped(up.ev)
    ELSE Wrapped(ArrayEv(<<>>))

\* the handler answering { events: data.events || [] } (part_000)
scoreboardHandlerPart000(up) ==
    IF up.net = "reject" THEN Wrapped(ArrayEv(<<>>))
    ELSE IF up.body \in {"badjson", "null"} THEN Wrapped(ArrayEv(<<>>))
    ELSE IF up.ev.k \in {"array", "string"} THEN Wrapped(up.ev)
    ELSE Wrapped(ArrayEv(<<>>))

\* the handler answering data.events || [] (head of part_001)
scoreboardHandlerPart001(up) ==
    IF up.net = "reject" THEN Bare(ArrayEv(<<>>))
    ELSE IF up.body \in {"badjson", "null"} THEN Bare(ArrayEv(<<>>))
    ELSE IF up.ev.k \in {"array", "string"} THEN Bare(up.ev)
    ELSE Bare(ArrayEv(<<>>))

\* server/index.js, app.get("/api/scoreboard/:slug"): data.events ?? []
scoreboardHandlerExpress(up) ==
    IF up.net = "reject" THEN Bare(ArrayEv(<<>>))
    ELSE IF up.body \in {"badjson", "null"} THEN Bare(ArrayEv(<<>>))
    ELSE IF up.ev.k \notin {"undefined", "null"} THEN Bare(up.ev)
    ELSE Bare(ArrayEv(<<>>))

SbServers == {"slug", "part_000", "part_001", "express"}

scoreboardHandler(server, up) ==
    CASE server = "slug" -> scoreboardHandlerSlug(up)
      [] server = "part_000" -> scoreboardHandlerPart000(up)
      [] server = "part_001" -> scoreboardHandlerPart001(up)
      [] OTHER -> scoreboardHandlerExpress(up)

\* data?.events || []
eventsFieldOrEmpty(data) ==
    IF data.shape = "object" /\ data.ev.k \in {"array", "string"}
    THEN data.ev ELSE ArrayEv(<<>>)

\* Array.isArray(events) ? events : []
arrayOrEmpty(ev) == IF ev.k = "array" THEN ev.list ELSE <<>>

\* App.jsx, part_004:  const events = data?.events || [];
normalizeEventsField(data) == arrayOrEmpty(eventsFieldOrEmpty(data))

\* part_001:  const events = Array.isArray(data) ? data : data?.events || [];
normalizeArrayOrEventsField(data) ==
    IF data.shape = "array" THEN data.ev.list
    ELSE arrayOrEmpty(eventsFieldOrEmpty(data))

\* part_003:  const events = await res.json();  Array.isArray(events) ? events : []
normalizeArrayOnly(data) ==
    IF data.shape = "array" THEN data.ev.list ELSE <<>>

\* the async callback of scoresPairs: threw = fetch or res.json() threw
normalizeScoreboard(c, threw, data) ==
    IF threw THEN <<>>
    ELSE CASE c = "part_001" -> normalizeArrayOrEventsField(data)
           [] c = "part_003" -> normalizeArrayOnly(data)
           [] OTHER -> normalizeEventsField(data)

(***************************************************************************)
(* The league directory.  The directory answers with references; each      *)
(* reference resolves to a league descriptor, is rejected, or answers with *)
(* an error body that has none of the descriptor's fields.                 *)
(***************************************************************************)
LeaguePrefixApi == 25
LeaguePrefixExpress == 26

\* the reference at position i of the upstream directory
RefAt(i) ==
    IF i = 1 THEN "atp" ELSE IF i = 2 THEN "wta" ELSE IF i = 3 THEN "itf"
    ELSE "league" \o ToString(i)
LeagueId(ref) ==
    IF ref = "atp" THEN "851" ELSE IF ref = "wta" THEN "900" ELSE IF ref = "itf" THEN "777"
    ELSE "id-" \o ref

DirectoryRefs == { [i \in 1..n |-> RefAt(i)] : n \in 0..MaxRefs }

DirectoryUpstream ==
    { [net |-> "reject", body |-> "badjson", hasItems |-> FALSE, refs |-> <<>>],
      [net |-> "ok", body |-> "badjson", hasItems |-> FALSE, refs |-> <<>>],
      [net |-> "ok", body |-> "null", hasItems |-> FALSE, refs |-> <<>>],
      [net |-> "ok", body |-> "object", hasItems |-> FALSE, refs |-> <<>>] }
    \cup
    { [net |-> "ok", body |-> "object", hasItems |-> TRUE, refs |-> r] : r \in DirectoryRefs }

RefOutcomes == {"ok", "reject", "errbody"}

\* one element of the array /api/leagues answers with
LeagueItem(ref, id, slug) == [ref |-> ref, id |-> id, slug |-> slug]

LeaguesAnswer(status, list) == [status |-> status, list |-> list]

\* items.slice(0, n)
Slice(seq, n) == IF Len(seq) <= n THEN seq ELSE SubSeq(seq, 1, n)

\* leagues.filter(Boolean) over the results of the reference fetches
RECURSIVE resolveRefs(_, _)
resolveRefs(refs, outcome) ==
    IF refs = <<>> THEN <<>>
    ELSE LET r == Head(refs)
             rest == resolveRefs(Tail(refs), Tail(outcome))
         IN  CASE Head(outcome) = "ok" -> <<LeagueItem("undefined", LeagueId(r), r)>> \o rest
               [] Head(outcome) = "errbody" -> <<LeagueItem("undefined", "undefined", "undefined")>> \o rest
               [] OTHER -> rest                       \* catch: return null

\* api/leagues.js
leaguesHandlerApi(dir, outcome) ==
    IF dir.net = "reject" \/ dir.body \in {"badjson", "null"}
    THEN LeaguesAnswer(500, <<>>)                         \* catch
    ELSE LeaguesAnswer(200,
            resolveRefs(Slice(dir.refs, LeaguePrefixApi),
                        Slice(outcome, LeaguePrefixApi)))

\* server/index.js, app.get("/api/leagues")
leaguesHandlerExpress(dir) ==
    IF dir.net = "reject" \/ dir.body \in {"badjson", "null"}
    THEN LeaguesAnswer(500, <<>>)                         \* catch
    ELSE LET items == Slice(dir.refs, LeaguePrefixExpress)
         IN  LeaguesAnswer(200,
                [i \in 1..Len(items) |-> LeagueItem(items[i], "undefined", "undefined")])

LeagueServers == {"api", "express"}

leaguesHandler(server, dir, outcome) ==
    IF server = "api" THEN leaguesHandlerApi(dir, outcome) ELSE leaguesHandlerExpress(dir)

\* leagueItems.map((l) => ({ id: l.id, ..., slug: l.slug }))
validLeagues(leagueItems) ==
    [i \in 1..Len(leagueItems) |-> [id |-> leagueItems[i].id, slug |-> leagueItems[i].slug]]

(***************************************************************************)
(* Object.fromEntries and property lookup.  A map is a function from the   *)
(* set of its keys; of two entries with one key the later one wins.        *)
(***************************************************************************)
EmptyMap == [k \in {} |-> <<>>]

Max(S) == CHOOSE x \in S : \A y \in S : y <= x

fromEntries(pairs) ==
    [k \in {pairs[i].key : i \in 1..Len(pairs)} |->
        pairs[Max({i \in 1..Len(pairs) : pairs[i].key = k})].value]

\* scoresData[league.id] || []
eventsOf(scoresData, id) == IF id \in DOMAIN scoresData THEN scoresData[id] ELSE <<>>

\* oddsPairs.filter(Boolean)
RECURSIVE filterBoolean(_)
filterBoolean(entries) ==
    IF entries = <<>> THEN <<>>
    ELSE IF Head(entries).has
         THEN <<[key |-> Head(entries).key, value |-> Head(entries).pair]>>
              \o filterBoolean(Tail(entries))
         ELSE filterBoolean(Tail(entries))

(***************************************************************************)
(* The list of odds requests of a cycle.  An item records the slug and the *)
(* id that make the URL (the id is also the key in the odds map) and the   *)
(* embedded moneyline the callback falls back to.                          *)
(***************************************************************************)
OddsItem(slug, event, key, ml) == [slug |-> slug, event |-> event, key |-> key, ml |-> ml]

\* event?.groupings?.[0]?.competitions?.[0]?.odds?.[0]?.moneyline
firstGroupingMoneyline(event) ==
    IF Len(event.groupings) >= 1 /\ Len(event.groupings[1].competitions) >= 1
    THEN event.groupings[1].competitions[1].ml
    ELSE NoMoneyline

competitionItems(slug, event, comps) ==
    [i \in 1..Len(comps) |-> OddsItem(slug, event.id, comps[i].id, comps[i].ml)]

groupingCompetitions(slug, event) ==
    Concat([g \in 1..Len(event.groupings) |->
                competitionItems(slug, event, event.groupings[g].competitions)])

\* what one event contributes to allEvents / allCompetitions
itemsOfEvent(c, slug, event) ==
    CASE c \in {"App", "part_003"} ->
            <<OddsItem(slug, event.id, event.id, firstGroupingMoneyline(event))>>
      [] c = "part_004" -> groupingCompetitions(slug, event)
      [] OTHER -> groupingCompetitions(slug, event)
                  \o competitionItems(slug, event, event.competitions)

allCompetitions(c, ls, scoresData) ==
    Concat([i \in 1..Len(ls) |->
        LET evs == eventsOf(scoresData, ls[i].id)
        IN  Concat([e \in 1..Len(evs) |-> itemsOfEvent(c, ls[i].slug, evs[e])])])

(***************************************************************************)
(* Requests in flight.                                                     *)
(***************************************************************************)
NoDirectory == [net |-> "reject", body |-> "badjson", hasItems |-> FALSE, refs |-> <<>>]
LeaguesIdle ==
    [state |-> "idle", threw |-> FALSE, dir |-> NoDirectory, outcome |-> <<>>,
     answer |-> LeaguesAnswer(0, <<>>)]
LeaguesPending == [LeaguesIdle EXCEPT !.state = "pending"]

NoScoreboard == [net |-> "reject", ok |-> FALSE, body |-> "badjson", ev |-> UndefEv]
SbPending ==
    [state |-> "pending", threw |-> FALSE, up |-> NoScoreboard, data |-> NullData,
     events |-> <<>>]

NoOdds == [net |-> "reject", ok |-> FALSE, body |-> "badjson", hasItems |-> FALSE, items |-> NoItems]
OddsPending(item) ==
    [state |-> "pending", item |-> item, threw |-> FALSE, up |-> NoOdds,
     data |-> NullBody, entry |-> NoEntry]

AllSettled(reqs) == \A i \in 1..Len(reqs) : reqs[i].state = "settled"

\* the grouping builder before it has been given anything
BuildIdle ==
    /\ events = <<>>
    /\ now = 0
    /\ buildPc = "idle"
    /\ cursor = 0
    /\ map = <<>>
    /\ tournaments = <<>>
    /\ builds = 0
    /\ previous = <<>>

\* nothing has been rendered
RenderIdle ==
    /\ rendered = FALSE
    /\ presented = <<>>

\* americanOddsToPercentage has not been called
NotCalled == [k |-> "none", tenths |-> 0]
PercentIdle ==
    /\ arg = Undef
    /\ result = NotCalled

\* load is not running (the component is not the single-source client)
DirectIdle == [state |-> "idle", up |-> NoScoreboard]
ProxyIdle == [state |-> "idle", net |-> "reject", up |-> NoScoreboard, data |-> NullData]
LoadIdle ==
    /\ loadPc = "none"
    /\ directReq = DirectIdle
    /\ proxyReq = ProxyIdle

\* the league resolver is not running
NoResponse == [status |-> 0, list |-> <<>>]
ResolveIdle ==
    /\ resolverPc = "none"
    /\ prefix = <<>>
    /\ refFetches = <<>>
    /\ completed = <<>>
    /\ response = NoResponse

\* no grouping has been toggled
ExtraIdle ==
    /\ collapsedGroups = {}
    /\ ResolveIdle

\* the parts that are not running
OthersIdle ==
    /\ RenderIdle
    /\ PercentIdle
    /\ LoadIdle
    /\ cycle = 0
    /\ ExtraIdle

(***************************************************************************)
(* The component and its aggregation cycle.                                *)
(***************************************************************************)
Init ==
    /\ client \in Clients
    /\ leaguesServer \in LeagueServers
    /\ sbServer \in SbServers
    /\ oddsServer \in OddsServers
    /\ pc = "mounted"
    /\ leagues = <<>>
    /\ scores = EmptyMap
    /\ odds = EmptyMap
    /\ loading = TRUE
    /\ error = "null"
    /\ leaguesReq = LeaguesIdle
    /\ sbReqs = <<>>
    /\ oddsReqs = <<>>
    /\ BuildIdle
    /\ OthersIdle

\* useEffect(() => { fetchLeaguesAndScores(); }, []): the cycle starts,
\* up to the first await
StartCycle ==
    /\ pc = "mounted"
    /\ loading' = TRUE
    /\ error' = "null"
    /\ leaguesReq' = LeaguesPending
    /\ pc' = "leagues"
    /\ UNCHANGED <<client, leaguesServer, sbServer, oddsServer, leagues, scores,
                   odds, sbReqs, oddsReqs>>
    /\ UNCHANGED buildVars
    /\ UNCHANGED otherVars

\* the catch block without the finally that follows it
FailStillLoading(msg) ==
    /\ error' = msg
    /\ pc' = "done"
    /\ UNCHANGED <<leagues, sbReqs, loading>>

\* the cycle ends in the catch block: setError, then finally setLoading(false)
Fail(msg) ==
    /\ error' = msg
    /\ loading' = FALSE
    /\ pc' = "done"
    /\ UNCHANGED <<leagues, sbReqs>>

\* /api/leagues settles: from "await fetch" to the await of the scoreboards.
\* Both handlers answer an array whatever happens, so the "Bad league data"
\* throw of the client is never taken.
LeaguesSettle ==
    /\ pc = "leagues"
    /\ \/ /\ leaguesReq' = [leaguesReq EXCEPT !.state = "settled", !.threw = TRUE]
          /\ Fail("Failed to fetch")
       \/ \E dir \in DirectoryUpstream :
          \E outcome \in [1..Len(dir.refs) -> RefOutcomes] :
            LET answer == leaguesHandler(leaguesServer, dir, outcome)
                valid == validLeagues(answer.list)
            IN  /\ leaguesReq' = [state |-> "settled", threw |-> FALSE, dir |-> dir,
                                  outcome |-> outcome, answer |-> answer]
                /\ IF answer.status # 200
                   THEN Fail("Failed to load leagues")
                   ELSE /\ leagues' = valid
                        /\ sbReqs' = [i \in 1..Len(valid) |-> SbPending]
                        /\ pc' = "scoreboards"
                        /\ UNCHANGED <<loading, error>>
    /\ UNCHANGED <<client, leaguesServer, sbServer, oddsServer, scores, odds, oddsReqs>>
    /\ UNCHANGED buildVars
    /\ UNCHANGED otherVars

\* /api/scoreboard/<slug> of the i-th league settles
ScoreboardSettle(i) ==
    /\ pc = "scoreboards"
    /\ i \in 1..Len(sbReqs)
    /\ sbReqs[i].state = "pending"
    /\ \/ sbReqs' = [sbReqs EXCEPT ![i] =
                        [SbPending EXCEPT !.state = "settled", !.threw = TRUE,
                                          !.events = normalizeScoreboard(client, TRUE, NullData)]]
       \/ \E up \in ScoreboardUpstream(leagues[i].slug) :
            LET data == scoreboardHandler(sbServer, up)
            IN  sbReqs' = [sbReqs EXCEPT ![i] =
                    [state |-> "settled", threw |-> FALSE, up |-> up, data |-> data,
                     events |-> normalizeScoreboard(client, FALSE, data)]]
    /\ UNCHANGED <<client, leaguesServer, sbServer, oddsServer, pc, leagues, scores,
                   odds, loading, error, leaguesReq, oddsReqs>>
    /\ UNCHANGED buildVars
    /\ UNCHANGED otherVars

\* Promise.all of the scoreboards resolves: setScores, and the odds requests go out
ScoreboardJoin ==
    /\ pc = "scoreboards"
    /\ AllSettled(sbReqs)
    /\ LET scoresData == fromEntries([i \in 1..Len(sbReqs) |->
                            [key |-> leagues[i].id, value |-> sbReqs[i].events]])
           items == allCompetitions(client, leagues, scoresData)
       IN  /\ scores' = scoresData
           /\ oddsReqs' = [j \in 1..Len(items) |-> OddsPending(items[j])]
    /\ pc' = "odds"
    /\ UNCHANGED <<client, leaguesServer, sbServer, oddsServer, leagues, odds,
                   loading, error, leaguesReq, sbReqs>>
    /\ UNCHANGED buildVars
    /\ UNCHANGED otherVars

\* the odds callback without its try/catch: a failed call rejects Promise.all
\* and the cycle ends in the outer catch
OddsSettleUncaught(j) ==
    /\ pc = "odds"
    /\ j \in 1..Len(oddsReqs)
    /\ oddsReqs[j].state = "pending"
    /\ LET item == oddsReqs[j].item
       IN  \/ /\ oddsReqs' = [oddsReqs EXCEPT ![j] =
                    [OddsPending(item) EXCEPT !.state = "settled", !.threw = TRUE]]
              /\ error' = "Failed to fetch"
              /\ loading' = FALSE
              /\ pc' = "done"
           \/ /\ \E up \in OddsUpstream :
                LET data == oddsHandler(oddsServer, up)
                IN  oddsReqs' = [oddsReqs EXCEPT ![j] =
                        [state |-> "settled", item |-> item,
                         threw |-> FALSE, up |-> up, data |-> data,
                         entry |-> resolveOdds(client, item, FALSE, data)]]
              /\ UNCHANGED <<pc, loading, error>>
    /\ UNCHANGED <<client, leaguesServer, sbServer, oddsServer, leagues, scores,
                   odds, leaguesReq, sbReqs>>
    /\ UNCHANGED buildVars
    /\ UNCHANGED otherVars

\* /api/odds/<slug>/<id> of the j-th item settles
OddsSettle(j) ==
    /\ pc = "odds"
    /\ j \in 1..Len(oddsReqs)
    /\ oddsReqs[j].state = "pending"
    /\ LET item == oddsReqs[j].item
       IN  \/ oddsReqs' = [oddsReqs EXCEPT ![j] =
                    [OddsPending(item) EXCEPT !.state = "settled", !.threw = TRUE,
                        !.entry = resolveOdds(client, item, TRUE, NullBody)]]
           \/ \E up \in OddsUpstream :
                LET data == oddsHandler(oddsServer, up)
                IN  oddsReqs' = [oddsReqs EXCEPT ![j] =
                        [state |-> "settled", item |-> item,
                         threw |-> FALSE, up |-> up, data |-> data,
                         entry |-> resolveOdds(client, item, FALSE, data)]]
    /\ UNCHANGED <<client, leaguesServer, sbServer, oddsServer, pc, leagues, scores,
                   odds, loading, error, leaguesReq, sbReqs>>
    /\ UNCHANGED buildVars
    /\ UNCHANGED otherVars

\* Promise.all of the odds resolves: setOdds, then finally setLoading(false)
OddsJoin ==
    /\ pc = "odds"
    /\ AllSettled(oddsReqs)
    /\ odds' = fromEntries(filterBoolean([j \in 1..Len(oddsReqs) |-> oddsReqs[j].entry]))
    /\ loading' = FALSE
    /\ pc' = "done"
    /\ UNCHANGED <<client, leaguesServer, sbServer, oddsServer, leagues, scores,
                   error, leaguesReq, sbReqs, oddsReqs>>
    /\ UNCHANGED buildVars
    /\ UNCHANGED otherVars

Next ==
    \/ StartCycle
    \/ LeaguesSettle
    \/ \E i \in 1..Len(sbReqs) : ScoreboardSettle(i)
    \/ ScoreboardJoin
    \/ \E j \in 1..Len(oddsReqs) : OddsSettle(j)
    \/ OddsJoin

Spec == Init /\ [][Next]_vars

TypeOK ==
    /\ client \in Clients
    /\ pc \in {"mounted", "leagues", "scoreboards", "odds", "done"}
    /\ loading \in BOOLEAN
    /\ error \in {"null", "Failed to fetch", "Failed to load leagues"}
    /\ Len(leagues) <= MaxRefs
    /\ Len(sbReqs) <= MaxRefs

(***************************************************************************)
(* Vocabulary of the properties.                                           *)
(***************************************************************************)
\* a finite number or null
NumberOrNull(v) == v.k \in {"number", "null"}

\* v when it is a number, null otherwise
OrNull(v) == IF v.k = "number" THEN v ELSE Null

\* the pair of opening prices embedded in the competition payload
EmbeddedPair(ml) == [k |-> "pair", home |-> OrNull(ml.home), away |-> OrNull(ml.away)]

\* the j-th odds request was answered by the server (the client's call did not fail)
Answered(j) == oddsReqs[j].state = "settled" /\ ~oddsReqs[j].threw

\* the provider answered the server with a well-formed body carrying an items list
ValidOddsResponse(up) ==
    up.net = "ok" /\ up.ok /\ up.body = "object" /\ up.hasItems

\* the clients whose odds callback falls back to the embedded odds
FallbackClients == {"App", "part_001", "part_004"}
\* the clients that resolve odds per competition
CompetitionClients == {"part_001", "part_004"}

SelectedIndex == IF oddsServer = "api" THEN OddsIndexApi ELSE OddsIndexExpress

CycleDone == pc = "done"
\* the cycle went through its odds stage
OddsStageDone == pc = "done" /\ leaguesReq.answer.status = 200 /\ ~leaguesReq.threw

\* C1: for every provider response with at least one market entry the odds
\* handler answers with a pair {home, away} whose fields are each a finite
\* number or null (never a missing field, never a bare null).
C1_HandlerAnswersPair ==
    \A j \in 1..Len(oddsReqs) :
        (Answered(j) /\ ValidOddsResponse(oddsReqs[j].up) /\ Len(oddsReqs[j].up.items) >= 1)
        => /\ oddsReqs[j].data.k = "pair"
           /\ NumberOrNull(oddsReqs[j].data.home)
           /\ NumberOrNull(oddsReqs[j].data.away)

\* C2: in per-competition resolution, when the odds call fails or answers
\* null or a pair of two nulls, and the competition carries odds[0].moneyline,
\* the pair stored for the competition is the embedded pair of opening prices.
C2_FallbackToEmbedded ==
    (OddsStageDone /\ client \in CompetitionClients) =>
        \A j \in 1..Len(oddsReqs) :
            LET r == oddsReqs[j] IN
            ( /\ r.item.ml.present
              /\ \/ r.threw
                 \/ r.data.k = "null"
                 \/ (r.data.k = "pair" /\ r.data.home = Null /\ r.data.away = Null) )
            => /\ r.item.key \in DOMAIN odds
               /\ odds[r.item.key] = EmbeddedPair(r.item.ml)

C2_Witness ==
    /\ OddsStageDone
    /\ client = "part_004"
    /\ \E j \in 1..Len(oddsReqs) :
        /\ oddsReqs[j].item.ml.present
        /\ oddsReqs[j].item.ml.away = Undef
        /\ Answered(j)
        /\ oddsReqs[j].data = PairBody(Null, Null)
        /\ odds[oddsReqs[j].item.key] = PairBody(Num(-200), Null)

\* C3: when the odds endpoint answers a pair with a non-null home or away,
\* the pair stored for the competition is exactly that pair, whatever the
\* embedded odds of the competition are.
C3_FirstSuccessWins ==
    (OddsStageDone /\ client \in FallbackClients) =>
        \A j \in 1..Len(oddsReqs) :
            LET r == oddsReqs[j] IN
            ( /\ ~r.threw
              /\ r.data.k = "pair"
              /\ (r.data.home # Null \/ r.data.away # Null) )
            => /\ r.item.key \in DOMAIN odds
               /\ odds[r.item.key] = r.data

C3_Witness ==
    /\ OddsStageDone
    /\ client = "App"
    /\ \E j \in 1..Len(oddsReqs) :
        /\ oddsReqs[j].item.ml.present
        /\ Answered(j)
        /\ oddsReqs[j].data = PairBody(Num(150), Num(-200))
        /\ odds[oddsReqs[j].item.key] = PairBody(Num(150), Num(-200))
        /\ odds[oddsReqs[j].item.key] # EmbeddedPair(oddsReqs[j].item.ml)

\* the selected market index is out of bounds for the provider's items list
OutOfBounds(up) ==
    /\ up.net = "ok" /\ up.ok /\ up.body = "object"
    /\ (~up.hasItems \/ Len(up.items) < SelectedIndex + 1)

\* C4: when the selected market index is out of bounds for the items list
\* (empty, missing or too short) the handler answers null without crashing
\* and the client falls through to the embedded odds of the competition.
C4_OutOfBoundsFallsThrough ==
    \A j \in 1..Len(oddsReqs) :
        LET r == oddsReqs[j] IN
        (r.state = "settled" /\ OutOfBounds(r.up))
        => /\ r.data = NullBody
           /\ ~r.threw
           /\ client \in FallbackClients =>
                IF r.item.ml.present
                THEN r.entry = Entry(r.item.key, EmbeddedPair(r.item.ml))
                ELSE r.entry = NoEntry

C4_Witness ==
    /\ client = "part_004"
    /\ oddsServer = "api"
    /\ \E j \in 1..Len(oddsReqs) :
        /\ oddsReqs[j].state = "settled"
        /\ oddsReqs[j].up.hasItems
        /\ Len(oddsReqs[j].up.items) = 2
        /\ oddsReqs[j].data = NullBody
        /\ oddsReqs[j].entry = Entry("c1", PairBody(Num(-200), Null))

\* C5: after an aggregation cycle every entry of the odds map is a pair
\* whose home and away are each a finite number or null.
C5_OddsMapWellFormed ==
    CycleDone =>
        \A key \in DOMAIN odds :
            /\ odds[key].k = "pair"
            /\ NumberOrNull(odds[key].home)
            /\ NumberOrNull(odds[key].away)

\* the entries the callbacks of the odds stage returned
oddsEntries == [j \in 1..Len(oddsReqs) |-> oddsReqs[j].entry]

\* the odds map the cycle would have stored had the j-th request been
\* answered with "no odds" (null) instead of failing
OddsHadAnsweredNull(j) ==
    fromEntries(filterBoolean(
        [oddsEntries EXCEPT ![j] = resolveOdds(client, oddsReqs[j].item, FALSE, NullBody)]))

\* C6: a failed odds request of one competition stays with that competition:
\* the cycle does not end in the error state, the competition gets its
\* embedded pair or no entry, and every entry of the odds map is what it
\* would be had the request been answered with no odds.
C6_OddsFailureIsolated ==
    OddsStageDone =>
        \A j \in 1..Len(oddsReqs) :
            LET r == oddsReqs[j] IN
            r.threw =>
                /\ error = "null"
                /\ ~loading
                /\ IF client \in FallbackClients /\ r.item.ml.present
                   THEN r.item.key \in DOMAIN odds /\ odds[r.item.key] = EmbeddedPair(r.item.ml)
                   ELSE r.item.key \notin DOMAIN odds
                /\ odds = OddsHadAnsweredNull(j)

C6_Witness ==
    /\ OddsStageDone
    /\ client = "part_004"
    /\ Len(oddsReqs) = 2
    /\ oddsReqs[2].threw
    /\ "c2" \notin DOMAIN odds
    /\ Answered(1)
    /\ "c1" \in DOMAIN odds
    /\ odds["c1"] = PairBody(Num(150), Num(-200))

\* the scoreboard fetch of the i-th league failed / succeeded with events
SbFailed(i) == sbReqs[i].state = "settled" /\ (sbReqs[i].threw \/ sbReqs[i].up.net = "reject")
SbSucceeded(i) ==
    /\ sbReqs[i].state = "settled" /\ ~sbReqs[i].threw
    /\ sbReqs[i].up.net = "ok" /\ sbReqs[i].up.ok /\ sbReqs[i].up.body = "object"
    /\ sbReqs[i].up.ev.k = "array"

\* C7: if the scoreboard fetch of league B fails while that of league A
\* succeeds, then after the cycle scores[B] is empty, scores[A] holds exactly
\* the events returned for A, A's odds are resolved and no error is set.
C7_ScoreboardFailureIsolated ==
    OddsStageDone =>
        \A a, b \in 1..Len(leagues) :
            (leagues[a].id # leagues[b].id /\ SbSucceeded(a) /\ SbFailed(b))
            => /\ error = "null"
               /\ scores[leagues[b].id] = <<>>
               /\ scores[leagues[a].id] = sbReqs[a].up.ev.list
               /\ \A j \in 1..Len(oddsReqs) :
                    oddsReqs[j].entry.has => odds[oddsReqs[j].item.key] = oddsReqs[j].entry.pair

\* the normalization rule: the payload when it is an array, else its events
\* field when that is an array, else the empty list
NormalizationRule(data) ==
    IF data.shape = "array" THEN data.ev.list
    ELSE IF data.shape = "object" /\ data.ev.k = "array" THEN data.ev.list
    ELSE <<>>

\* C8: for every parsed scoreboard payload the client's normalization yields
\* what the normalization rule yields, for every pairing of client and endpoint.
C8_NormalizationRule ==
    \A i \in 1..Len(sbReqs) :
        (sbReqs[i].state = "settled" /\ ~sbReqs[i].threw)
        => sbReqs[i].events = NormalizationRule(sbReqs[i].data)

\* the league directory is unreachable: its fetch rejects or its body does not parse
DirectoryUnreachable ==
    /\ leaguesReq.state = "settled" /\ ~leaguesReq.threw
    /\ (leaguesReq.dir.net = "reject" \/ leaguesReq.dir.body = "badjson")

\* C9: when the league directory is unreachable the league resolver answers
\* an empty list as a successful response and the client ends the cycle with
\* an empty league list and no error.
C9_DirectoryFailureIsEmptyList ==
    (CycleDone /\ DirectoryUnreachable)
    => /\ leaguesReq.answer.status = 200
       /\ leaguesReq.answer.list = <<>>
       /\ leagues = <<>>
       /\ error = "null"

\* C10: after any aggregation cycle, whatever upstream calls failed, the
\* client is not in its error state.
C10_NeverErrorState ==
    (CycleDone /\ ~leaguesReq.threw) => error = "null"

\* the descriptors the league resolver owes: one per reference among the
\* first 25 whose fetch succeeded, in the order of the directory
RECURSIVE expectedDescriptors(_, _)
expectedDescriptors(refs, outcome) ==
    IF refs = <<>> THEN <<>>
    ELSE (IF Head(outcome) = "ok"
          THEN <<LeagueItem("undefined", LeagueId(Head(refs)), Head(refs))>>
          ELSE <<>>) \o expectedDescriptors(Tail(refs), Tail(outcome))

\* the league resolver answered from a directory it could read
DirectoryResolved ==
    /\ leaguesReq.state = "settled" /\ ~leaguesReq.threw
    /\ leaguesReq.answer.status = 200

\* C11: the league resolver answers exactly one descriptor per succeeding
\* reference among the first 25 and none for a failing one (rejected fetch,
\* non-2xx status, unparseable body): never more than 25 entries and never a
\* descriptor without its fields.
C11_OneDescriptorPerSucceedingRef ==
    DirectoryResolved =>
        /\ Len(leaguesReq.answer.list) <= 25
        /\ \A i \in 1..Len(leaguesReq.answer.list) :
              /\ leaguesReq.answer.list[i].id # "undefined"
              /\ leaguesReq.answer.list[i].slug # "undefined"
        /\ leaguesReq.answer.list =
              expectedDescriptors(Slice(leaguesReq.dir.refs, 25),
                                  Slice(leaguesReq.outcome, 25))

(***************************************************************************)
(* The grouping builder: `tournaments` of the single-source client         *)
(* (part_002) and buildGroupingsForLeague of part_001 and part_004.        *)
(*                                                                         *)
(* Events as the builder reads them.  A name that is absent is             *)
(* "undefined"; a list that is absent is NoList.  An empty array is truthy *)
(* in JavaScript, so List(<<>>) || x is List(<<>>).                        *)
(***************************************************************************)
MaxLeagueEvents == 2    \* longest event list the builder is given
MaxBuilds == 2          \* how many times the builder runs on one list

NoList == [k |-> "undefined", list |-> <<>>]
List(l) == [k |-> "array", list |-> l]

\* a || b on names and on lists
OrName(a, b) == IF a # "undefined" THEN a ELSE b
OrList(a, b) == IF a.k # "undefined" THEN a ELSE b
\* x || [] and Array.isArray(x) ? x : []
listOrEmpty(a) == IF a.k = "array" THEN a.list ELSE <<>>

\* event.date: absent, a string Date cannot parse, or a day
NoDate == [k |-> "undefined", day |-> 0]
BadDate == [k |-> "invalid", day |-> 0]
Day(d) == [k |-> "date", day |-> d]

\* the days new Date() falls on, and the days events are dated
NowDays == {10, 11}
EventDays == {5, 6, 10, 18, 19, 20}
EventDates == {NoDate, BadDate} \cup {Day(d) : d \in EventDays}

\* an upstream competition object, or the one the builder makes up; state is
\* status.type.state, which the made-up one does not have
Competition(id, competitors, oddsList, broadcast) ==
    [id |-> id, competitors |-> competitors, odds |-> oddsList, broadcast |-> broadcast,
     state |-> "undefined"]

UpstreamComp(id) == Competition(id, <<id>>, <<>>, "undefined")

\* an upstream grouping: g.grouping.displayName, g.displayName, g.shortName,
\* g.competitions, g.odds, g.broadcast
Grouping(gname, dname, sname, comps, oddsList, broadcast) ==
    [groupingDisplayName |-> gname, displayName |-> dname, shortName |-> sname,
     competitions |-> comps, odds |-> oddsList, broadcast |-> broadcast]

\* an upstream event; tournament is event.tournament.name, and broadcast
\* stands for the first of broadcast and broadcasts that is there
Event(id, tournament, shortName, name, groupings, comps, competitors, oddsList, broadcast) ==
    [id |-> id, tournament |-> tournament, shortName |-> shortName, name |-> name,
     date |-> NoDate, groupings |-> groupings, competitions |-> comps,
     competitors |-> competitors, odds |-> oddsList, broadcast |-> broadcast,
     state |-> "undefined"]

Dated(event, date) == [event EXCEPT !.date = date]

\* x.status.type.state === "in"
InPlay(x) == [x EXCEPT !.state = "in"]

\* a tennis event: one named grouping with two matches
GroupedEvent ==
    Event("e1", "Wimbledon", "Day 1", "Day 1 of Wimbledon",
          List(<< Grouping("Men", "undefined", "undefined",
                           List(<<UpstreamComp("c1"), UpstreamComp("c2")>>),
                           NoList, "undefined") >>),
          NoList, NoList, NoList, "undefined")
\* a grouping without matches of its own, with its own odds and broadcast
BareGroupingEvent ==
    Event("e2", "Wimbledon", "undefined", "Final",
          List(<< Grouping("undefined", "Men", "undefined", NoList,
                           List(<<"g-odds">>), "ESPN") >>),
          NoList, List(<<"p1", "p2">>), List(<<"e-odds">>), "BBC")
\* two unnamed groupings without matches of their own
TwoBareGroupingsEvent ==
    Event("e3", "undefined", "undefined", "undefined",
          List(<< Grouping("undefined", "undefined", "undefined", NoList, NoList, "undefined"),
                  Grouping("undefined", "undefined", "undefined", NoList, NoList, "Sky") >>),
          NoList, List(<<"p3", "p4">>), NoList, "undefined")
\* a grouping without matches in an event that lists matches at its top level
BothEvent ==
    Event("e4", "Wimbledon", "Day 1", "undefined",
          List(<< Grouping("Men", "undefined", "undefined", NoList, NoList, "ESPN") >>),
          List(<<UpstreamComp("c5")>>), List(<<"p5">>), NoList, "undefined")
\* groupings with matches in an event that lists matches at its top level
BothFullEvent ==
    Event("e5", "Wimbledon", "Day 1", "undefined",
          List(<< Grouping("Women", "undefined", "undefined",
                           List(<<UpstreamComp("c6")>>), NoList, "undefined") >>),
          List(<<UpstreamComp("c7")>>), NoList, NoList, "undefined")
\* an event with nothing but its id, its competitors and its broadcast
PlainEvent ==
    Event("e6", "undefined", "undefined", "undefined",
          NoList, NoList, List(<<"p6", "p7">>), List(<<"e-odds">>), "BBC")
\* a team-sport style event: matches at its top level only
FlatEvent ==
    Event("e7", "Queens", "undefined", "Queens Day 2",
          NoList, List(<<UpstreamComp("c8"), UpstreamComp("c9")>>),
          NoList, NoList, "undefined")
\* an event with nothing but its id and its name
EmptyEvent ==
    Event("e8", "undefined", "undefined", "Exhibition",
          NoList, NoList, NoList, NoList, "undefined")
\* an event without an id whose match has no id either
NoIdEvent ==
    Event("undefined", "Queens", "undefined", "undefined",
          List(<< Grouping("Men", "undefined", "undefined",
                           List(<<UpstreamComp("undefined")>>), NoList, "undefined"),
                  Grouping("Women", "undefined", "undefined", NoList, NoList, "undefined") >>),
          NoList, NoList, NoList, "undefined")

\* the events a scoreboard can deliver
UpstreamEvents ==
    { Dated(e, Day(10)) : e \in { BareGroupingEvent, TwoBareGroupingsEvent, BothEvent,
                                  BothFullEvent, FlatEvent, EmptyEvent, NoIdEvent } }
    \cup { Dated(e, d) : e \in { GroupedEvent, PlainEvent }, d \in EventDates }

EventListsUpTo(n) == SeqsUpTo(UpstreamEvents, n)

(***************************************************************************)
(* The builder's helpers.  A Map is the sequence of its entries in         *)
(* insertion order.  An item is {event, competition}: event is the index   *)
(* of the event object in the list, and src, g, p say which object the     *)
(* competition is (the p-th of grouping g's list, the p-th of the event's  *)
(* list, or one made up for grouping g).                                   *)
(***************************************************************************)
\* new Date(d).toLocaleDateString("en-US", {month: "short", day: "numeric"})
formatDate(d) ==
    IF d.k = "undefined" THEN ""
    ELSE IF d.k = "invalid" THEN "Invalid Date"
    ELSE "Nov " \o ToString(d.day)

\* App.jsx isGameInTimeWindow, with new Date() = n: comparing an Invalid
\* Date is false both ways
isGameInTimeWindow(date, n) ==
    IF date.k = "undefined" THEN FALSE
    ELSE date.k = "date" /\ date.day >= n - 4 /\ date.day <= n + 8

Item(e, src, g, p, comp) == [event |-> e, src |-> src, g |-> g, p |-> p, competition |-> comp]

GroupingEntry(key, displayName) == [key |-> key, displayName |-> displayName, items |-> <<>>]

\* map.has(key)
has(entries, key) == \E i \in 1..Len(entries) : entries[i].key = key

\* if (!map.has(key)) map.set(key, {key, displayName, items: []})
setIfAbsent(entries, key, displayName) ==
    IF has(entries, key) THEN entries ELSE Append(entries, GroupingEntry(key, displayName))

\* items.unshift(...): the new items go in front of the entry's list
pushFront(entries, key, newItems) ==
    [i \in 1..Len(entries) |->
        IF entries[i].key = key
        THEN [entries[i] EXCEPT !.items = newItems \o @]
        ELSE entries[i]]

\* map.get(key).items.push(...) for each of newItems
push(entries, key, newItems) ==
    [i \in 1..Len(entries) |->
        IF entries[i].key = key
        THEN [entries[i] EXCEPT !.items = @ \o newItems]
        ELSE entries[i]]

\* for (const comp of comps) items.push({event, competition: comp})
itemsOf(e, src, g, comps) == [p \in 1..Len(comps) |-> Item(e, src, g, p, comps[p])]

(***************************************************************************)
(* part_002, the body of `for (const event of events)` in `tournaments`.   *)
(* g.grouping.shortName is left out of the grouping's names.               *)
(***************************************************************************)
tournamentNameOf(event) ==
    OrName(event.tournament, OrName(event.shortName, OrName(event.name,
        IF event.date.k # "undefined" THEN formatDate(event.date) ELSE "Tournament")))

groupingDisplayName(event, g) ==
    OrName(g.groupingDisplayName, OrName(g.displayName, OrName(g.shortName,
        OrName(event.shortName, OrName(event.name, "Matches")))))

ungroupedDisplayName(event) ==
    OrName(event.shortName, OrName(event.name,
        IF event.date.k # "undefined" THEN formatDate(event.date) ELSE "Matches"))

groupingKeyOf(tournamentName, displayName) == tournamentName \o "||" \o displayName

\* the items one grouping of the event adds
groupingItems(event, e, gi) ==
    LET g == event.groupings.list[gi]
        comps == listOrEmpty(g.competitions)
        eventComps == listOrEmpty(event.competitions)
    IN  IF comps # <<>> THEN itemsOf(e, "grouping", gi, comps)
        ELSE IF eventComps # <<>> THEN itemsOf(e, "event", gi, eventComps)
        ELSE << Item(e, "synthesized", gi, 0,
                     Competition(event.id,
                                 listOrEmpty(event.competitors),
                                 listOrEmpty(OrList(g.odds, event.odds)),
                                 OrName(g.broadcast, event.broadcast))) >>

\* for (const g of groupingsArray), from the gi-th grouping on
RECURSIVE addGroupings(_, _, _, _, _)
addGroupings(entries, tournamentName, event, e, gi) ==
    IF gi > Len(event.groupings.list) THEN entries
    ELSE LET displayName == groupingDisplayName(event, event.groupings.list[gi])
             key == groupingKeyOf(tournamentName, displayName)
         IN  addGroupings(push(setIfAbsent(entries, key, displayName), key,
                               groupingItems(event, e, gi)),
                          tournamentName, event, e, gi + 1)

\* the else branch pushing the made-up competition whether or not the event
\* lists competitions
addUngroupedAlwaysSynthesizing(entries, tournamentName, event, e) ==
    LET displayName == ungroupedDisplayName(event)
        key == groupingKeyOf(tournamentName, displayName)
        eventComps == listOrEmpty(event.competitions)
    IN  push(setIfAbsent(entries, key, displayName), key,
             itemsOf(e, "event", 0, eventComps)
             \o << Item(e, "synthesized", 0, 0,
                        Competition(event.id,
                                    listOrEmpty(event.competitors),
                                    listOrEmpty(event.odds),
                                    event.broadcast)) >>)

\* the else branch: the event has no groupings
addUngrouped(entries, tournamentName, event, e) ==
    LET displayName == ungroupedDisplayName(event)
        key == groupingKeyOf(tournamentName, displayName)
        eventComps == listOrEmpty(event.competitions)
    IN  push(setIfAbsent(entries, key, displayName), key,
             IF eventComps # <<>> THEN itemsOf(e, "event", 0, eventComps)
             ELSE << Item(e, "synthesized", 0, 0,
                          Competition(event.id,
                                      listOrEmpty(event.competitors),
                                      listOrEmpty(event.odds),
                                      event.broadcast)) >>)

TournamentNode(name, groupings) == [tournamentName |-> name, groupings |-> groupings]

addEventTournaments(m, event, e) ==
    LET name == tournamentNameOf(event)
        m1 == IF \E i \in 1..Len(m) : m[i].tournamentName = name
              THEN m ELSE Append(m, TournamentNode(name, <<>>))
    IN  [i \in 1..Len(m1) |->
            IF m1[i].tournamentName # name THEN m1[i]
            ELSE [m1[i] EXCEPT !.groupings =
                    IF listOrEmpty(event.groupings) # <<>>
                    THEN addGroupings(@, name, event, e, 1)
                    ELSE addUngrouped(@, name, event, e)]]

(***************************************************************************)
(* part_001 and part_004, the body of `for (const event of leagueEvents)`  *)
(* in buildGroupingsForLeague.  part_004 gives the competition it makes up *)
(* no broadcast field.                                                     *)
(***************************************************************************)
synthesizedForLeague(c, event, broadcast) ==
    Competition(event.id, listOrEmpty(event.competitors), listOrEmpty(event.odds),
                IF c = "part_001" THEN broadcast ELSE "undefined")

RECURSIVE addLeagueGroupings(_, _, _, _, _)
addLeagueGroupings(c, entries, event, e, gi) ==
    IF gi > Len(event.groupings.list) THEN entries
    ELSE LET g == event.groupings.list[gi]
             displayName == OrName(g.groupingDisplayName,
                                   OrName(g.displayName, "Unknown grouping"))
             competitions == listOrEmpty(g.competitions)
         IN  addLeagueGroupings(c,
                push(setIfAbsent(entries, displayName, displayName), displayName,
                     IF competitions # <<>> THEN itemsOf(e, "grouping", gi, competitions)
                     ELSE << Item(e, "synthesized", gi, 0,
                                  synthesizedForLeague(c, event,
                                      OrName(g.broadcast, event.broadcast))) >>),
                event, e, gi + 1)

addEventLeague(c, entries, event, e, n) ==
    IF ~isGameInTimeWindow(event.date, n) THEN entries          \* continue
    ELSE IF listOrEmpty(event.groupings) = <<>>
    THEN LET competitions == listOrEmpty(event.competitions)
         IN  push(setIfAbsent(entries, "Ungrouped", "Ungrouped"), "Ungrouped",
                  IF competitions # <<>> THEN itemsOf(e, "event", 0, competitions)
                  ELSE << Item(e, "synthesized", 0, 0,
                               synthesizedForLeague(c, event, event.broadcast)) >>)
    ELSE addLeagueGroupings(c, entries, event, e, 1)

(***************************************************************************)
(* The builder as it runs: the useMemo callback of part_002, and the call  *)
(* of buildGroupingsForLeague for one league in the render of part_001 and *)
(* part_004.  It runs again whenever the component renders with a new      *)
(* event list object, and the clock may have moved on by then.             *)
(***************************************************************************)
BuilderClients == {"part_001", "part_002", "part_004"}

\* the league whose events part_001 and part_004 are building from
LeagueName == "ATP"

BuildInit ==
    /\ client \in BuilderClients
    /\ leaguesServer = "api"
    /\ sbServer = "slug"
    /\ oddsServer = "api"
    /\ pc = "done"
    /\ leagues = <<>>
    /\ scores = EmptyMap
    /\ odds = EmptyMap
    /\ loading = FALSE
    /\ error = "null"
    /\ leaguesReq = LeaguesIdle
    /\ sbReqs = <<>>
    /\ oddsReqs = <<>>
    /\ events \in EventListsUpTo(MaxLeagueEvents)
    /\ now \in NowDays
    /\ buildPc = "idle"
    /\ cursor = 0
    /\ map = <<>>
    /\ tournaments = <<>>
    /\ builds = 0
    /\ previous = <<>>
    /\ OthersIdle

\* the builder is entered without `const map = new Map()`: it goes on with
\* the map of the build before
BuildStartKeepingMap ==
    /\ buildPc \in {"idle", "built"}
    /\ builds < MaxBuilds
    /\ cursor' = 1
    /\ buildPc' = "building"
    /\ previous' = tournaments
    /\ now' \in {n \in NowDays : n >= now}
    /\ UNCHANGED <<events, map, tournaments, builds>>
    /\ UNCHANGED cycleVars
    /\ UNCHANGED otherVars

\* the builder is entered: const map = new Map()
BuildStart ==
    /\ buildPc \in {"idle", "built"}
    /\ builds < MaxBuilds
    /\ map' = <<>>
    /\ cursor' = 1
    /\ buildPc' = "building"
    /\ previous' = tournaments
    /\ now' \in {n \in NowDays : n >= now}
    /\ UNCHANGED <<events, tournaments, builds>>
    /\ UNCHANGED cycleVars
    /\ UNCHANGED otherVars

\* one turn of the loop over the events
BuildEvent ==
    /\ buildPc = "building"
    /\ cursor <= Len(events)
    /\ map' = IF client = "part_002"
              THEN addEventTournaments(map, events[cursor], cursor)
              ELSE addEventLeague(client, map, events[cursor], cursor, now)
    /\ cursor' = cursor + 1
    /\ UNCHANGED <<events, now, buildPc, tournaments, builds, previous>>
    /\ UNCHANGED cycleVars
    /\ UNCHANGED otherVars

\* the loop is over: part_002 returns Array.from(map.entries()) as tournaments
\* with their groupings; part_001 and part_004 return the groupings, and the
\* render drops the league when there are none
BuildReturn ==
    /\ buildPc = "building"
    /\ cursor > Len(events)
    /\ tournaments' = IF client = "part_002" THEN map
                      ELSE IF map = <<>> THEN <<>>
                      ELSE << TournamentNode(LeagueName, map) >>
    /\ buildPc' = "built"
    /\ builds' = builds + 1
    /\ UNCHANGED <<events, now, cursor, map, previous>>
    /\ UNCHANGED cycleVars
    /\ UNCHANGED otherVars

BuildNext ==
    \/ BuildStart
    \/ BuildEvent
    \/ BuildReturn

BuildSpec == BuildInit /\ [][BuildNext]_vars

(***************************************************************************)
(* Vocabulary of the properties of the builder.                            *)
(***************************************************************************)
Built == buildPc = "built"

\* the grouping nodes of the hierarchy, as <<tournament index, grouping index>>
Nodes ==
    UNION { { <<t, n>> : n \in 1..Len(tournaments[t].groupings) } :
                t \in 1..Len(tournaments) }

NodeOf(tn) == tournaments[tn[1]].groupings[tn[2]]

\* the items of the hierarchy, as <<tournament index, grouping index, item index>>
AllItems ==
    UNION { { [node |-> tn, i |-> i, item |-> NodeOf(tn).items[i]] :
                i \in 1..Len(NodeOf(tn).items) } : tn \in Nodes }

\* the items the e-th event contributed
ItemsOfEvent(e) == { x \in AllItems : x.item.event = e }

\* the e-th event carries a non-empty groupings list and a top-level competitions list
HasBoth(e) ==
    /\ listOrEmpty(events[e].groupings) # <<>>
    /\ events[e].competitions.k = "array"

\* the competitions listed under the groupings of the event
GroupingCompetitionsOf(event) ==
    UNION { { listOrEmpty(event.groupings.list[g].competitions)[p] :
                p \in 1..Len(listOrEmpty(event.groupings.list[g].competitions)) } :
            g \in 1..Len(event.groupings.list) }

\* C12: an event with both a non-empty groupings list and a top-level
\* competitions list is flattened under the groupings rule only: none of its
\* top-level competitions is in the hierarchy, and each of its grouping
\* competitions is there once.
C12_GroupingsRuleOnly ==
    Built =>
        \A e \in 1..Len(events) :
            (HasBoth(e) /\ ItemsOfEvent(e) # {})
            => /\ \A x \in ItemsOfEvent(e) : x.item.src # "event"
               /\ \A c \in GroupingCompetitionsOf(events[e]) :
                    Cardinality({ x \in ItemsOfEvent(e) : x.item.competition = c }) = 1

\* the items the g-th grouping of the e-th event contributed
ItemsOfGrouping(e, g) == { x \in ItemsOfEvent(e) : x.item.g = g }

\* the g-th grouping of the e-th event has no competitions of its own
BareGrouping(e, g) ==
    /\ g \in 1..Len(listOrEmpty(events[e].groupings))
    /\ listOrEmpty(events[e].groupings.list[g].competitions) = <<>>

\* C13: for every grouping without a competitions list of its own the
\* flattener adds exactly one item, a competition made up from the event
\* (id = event id, competitors = the event's competitors, odds from the
\* grouping or the event) that carries the grouping's broadcast when the
\* grouping has one, also when the event lists competitions at its top level.
C13_OneSynthesizedPerBareGrouping ==
    Built =>
        \A e \in 1..Len(events) : \A g \in 1..Len(listOrEmpty(events[e].groupings)) :
            (BareGrouping(e, g) /\ ItemsOfEvent(e) # {})
            => /\ Cardinality(ItemsOfGrouping(e, g)) = 1
               /\ \A x \in ItemsOfGrouping(e, g) :
                    LET grouping == events[e].groupings.list[g]
                    IN  /\ x.item.src = "synthesized"
                        /\ x.item.competition.id = events[e].id
                        /\ x.item.competition.competitors = listOrEmpty(events[e].competitors)
                        /\ x.item.competition.odds \in
                              { listOrEmpty(OrList(grouping.odds, events[e].odds)),
                                listOrEmpty(events[e].odds) }
                        /\ grouping.broadcast # "undefined"
                           => x.item.competition.broadcast = grouping.broadcast

\* the e-th event has no groupings
Ungrouped(e) == listOrEmpty(events[e].groupings) = <<>>

\* the revisions of the flattener that give the competition they make up
\* the event's broadcast
BroadcastClients == {"part_001", "part_002"}

\* C14: an event with no groupings and no top-level competitions contributes
\* exactly one item, whose competition has the event's id, the event's
\* competitors (none when absent) and the event's odds and broadcast; an
\* event with no groupings and a non-empty top-level competitions list
\* contributes exactly one item per competition and no synthesized item.
C14_UngroupedEvent ==
    (Built /\ client \in BroadcastClients) =>
        \A e \in 1..Len(events) :
            (Ungrouped(e) /\ ItemsOfEvent(e) # {})
            => LET comps == listOrEmpty(events[e].competitions)
               IN  IF comps = <<>>
                   THEN /\ Cardinality(ItemsOfEvent(e)) = 1
                        /\ \A x \in ItemsOfEvent(e) :
                             x.item.competition =
                                Competition(events[e].id,
                                            listOrEmpty(events[e].competitors),
                                            listOrEmpty(events[e].odds),
                                            events[e].broadcast)
                   ELSE /\ Cardinality(ItemsOfEvent(e)) = Len(comps)
                        /\ \A p \in 1..Len(comps) :
                              Cardinality({ x \in ItemsOfEvent(e) :
                                              x.item.competition = comps[p] }) = 1

\* both cases in one hierarchy: an event with nothing but competitors, odds
\* and broadcast gave one item, and a flat event gave its two competitions
C14_Witness ==
    /\ Built /\ client \in BroadcastClients
    /\ \E e, f \in 1..Len(events) :
        /\ events[e] = Dated(PlainEvent, Day(10))
        /\ events[f] = Dated(FlatEvent, Day(10))
        /\ Cardinality(ItemsOfEvent(e)) = 1
        /\ \A x \in ItemsOfEvent(e) :
              /\ x.item.competition.id = "e6"
              /\ x.item.competition.competitors = <<"p6", "p7">>
              /\ x.item.competition.broadcast = "BBC"
        /\ Cardinality(ItemsOfEvent(f)) = 2

\* the ids of the competitions the event carries, under its groupings and at
\* its top level
UpstreamIdsOf(event) ==
    LET idsOf(comps) == [p \in 1..Len(comps) |-> comps[p].id]
        gs == listOrEmpty(event.groupings)
    IN  Concat([g \in 1..Len(gs) |-> idsOf(listOrEmpty(gs[g].competitions))])
        \o idsOf(listOrEmpty(event.competitions))

\* the upstream competition ids and the event ids of the list are pairwise distinct
DistinctUpstreamIds ==
    LET ids == Concat([e \in 1..Len(events) |-> <<events[e].id>> \o UpstreamIdsOf(events[e])])
    IN  \A i, j \in 1..Len(ids) : i # j => ids[i] # ids[j]

\* C15: when the upstream competition ids are pairwise distinct, no
\* competition id occurs in two items of one grouping node, also when
\* groupings share a display name or have no competitions of their own.
C15_NoIdTwiceInNode ==
    (Built /\ DistinctUpstreamIds) =>
        \A tn \in Nodes :
            \A i, j \in 1..Len(NodeOf(tn).items) :
                i # j => NodeOf(tn).items[i].competition.id # NodeOf(tn).items[j].competition.id

\* C16: every competition reachable from the built hierarchy has a defined,
\* non-null id, also when the upstream competition or the event carries none.
C16_EveryCompetitionHasId ==
    Built => \A x \in AllItems : x.item.competition.id # "undefined"

\* the builder of part_002 has run twice on the event list
BuiltTwice == Built /\ builds >= 2 /\ client = "part_002"

\* C17: the grouping builder is idempotent: building twice from the same
\* event list yields the same sequence of tournament names, the same
\* sequence of grouping keys under each tournament and the same sequence of
\* items under each grouping key.
C17_BuilderIdempotent ==
    BuiltTwice =>
        /\ Len(tournaments) = Len(previous)
        /\ \A t \in 1..Len(tournaments) :
              /\ tournaments[t].tournamentName = previous[t].tournamentName
              /\ Len(tournaments[t].groupings) = Len(previous[t].groupings)
              /\ \A n \in 1..Len(tournaments[t].groupings) :
                    /\ tournaments[t].groupings[n].key = previous[t].groupings[n].key
                    /\ tournaments[t].groupings[n].items = previous[t].groupings[n].items

\* a second build of a hierarchy with two tournaments, one of them with a
\* node of several items
C17_Witness ==
    /\ BuiltTwice
    /\ Len(tournaments) = 2
    /\ \E tn \in Nodes : Len(NodeOf(tn).items) >= 2

\* the display name the key is to be made of: the explicit name of the
\* grouping (g = 0: the event has no grouping), else the event's short name
\* or name, else "Matches"
ExpectedDisplayName(event, g) ==
    LET explicit == IF g = 0 THEN "undefined"
                    ELSE OrName(event.groupings.list[g].groupingDisplayName,
                         OrName(event.groupings.list[g].displayName,
                                event.groupings.list[g].shortName))
    IN  OrName(explicit, OrName(event.shortName, OrName(event.name, "Matches")))

\* C18: in the hierarchy of the grouping builder every node an item lies in
\* has as its display name the explicit grouping name, else the event's
\* short name or name, else "Matches", and as its key the tournament key and
\* that display name joined by the delimiter; nothing else, such as a
\* formatted date, is used as display name.
C18_DisplayNameRule ==
    (Built /\ client = "part_002") =>
        \A x \in AllItems :
            /\ NodeOf(x.node).displayName = ExpectedDisplayName(events[x.item.event], x.item.g)
            /\ NodeOf(x.node).key =
                  tournaments[x.node[1]].tournamentName \o "||" \o NodeOf(x.node).displayName

\* item a was flattened before item b: its event comes earlier in the list,
\* or for one event its grouping comes earlier, or for one grouping its
\* position in the competitions list is the earlier one
FlattenedBefore(a, b) ==
    \/ a.event < b.event
    \/ a.event = b.event /\ a.g < b.g
    \/ a.event = b.event /\ a.g = b.g /\ a.p < b.p

\* C19: within each grouping node the items are in flattening order: by
\* event, then by grouping, then by position in the competitions list.
C19_ItemsInFlatteningOrder ==
    Built =>
        \A tn \in Nodes :
            \A i, j \in 1..Len(NodeOf(tn).items) :
                i < j => FlattenedBefore(NodeOf(tn).items[i], NodeOf(tn).items[j])

\* a node holding the two matches of one grouping and, after them, an item
\* of a later event
C19_Witness ==
    /\ Built
    /\ \E tn \in Nodes :
        /\ Len(NodeOf(tn).items) = 3
        /\ NodeOf(tn).items[1].event = 1 /\ NodeOf(tn).items[1].p = 1
        /\ NodeOf(tn).items[2].event = 1 /\ NodeOf(tn).items[2].p = 2
        /\ NodeOf(tn).items[3].event = 2

\* the date lies in the inclusive window [n - 4 days, n + 8 days]
InWindow(date, n) == date.k = "date" /\ n - 4 <= date.day /\ date.day <= n + 8

\* C20: an event is in the presented hierarchy only if its date lies in the
\* inclusive window [now - 4 days, now + 8 days] (and is there if it does):
\* 4 days back and 8 days ahead are in, 5 days back and 9 days ahead are
\* out, a missing or an unparseable date is out, in every presentation
\* variant, the tournament/grouping hierarchy included.
C20_OnlyEventsInWindow ==
    Built =>
        \A e \in 1..Len(events) :
            ItemsOfEvent(e) # {} <=> InWindow(events[e].date, now)

(***************************************************************************)
(* The render of the league list: App.jsx 209-231, part_001 343-365 and    *)
(* part_004 274-296.  Each league becomes {league, what it shows,          *)
(* hasLiveGames}, or null when it has nothing to show; the nulls are       *)
(* dropped and the rest is sorted, leagues with live games first.          *)
(***************************************************************************)
MaxLeagues == 3        \* most leagues in the league list that is rendered

RenderClients == {"App", "part_001", "part_004"}

\* the events of the scoreboards that are rendered
QuietEvent == Dated(PlainEvent, Day(10))
LiveEvent == InPlay(Dated(PlainEvent, Day(10)))
LiveEventLongAgo == InPlay(Dated(PlainEvent, Day(5)))
LiveMatchEvent ==
    [Dated(GroupedEvent, Day(10)) EXCEPT
        !.groupings = List(<< Grouping("Men", "undefined", "undefined",
                                       List(<<UpstreamComp("c1"), InPlay(UpstreamComp("c2"))>>),
                                       NoList, "undefined") >>)]

\* the event lists a league's scoreboard can hold
LeagueScoreboards ==
    { <<>>, <<QuietEvent>>, <<LiveEvent>>, <<LiveEventLongAgo>>, <<LiveMatchEvent>>,
      <<QuietEvent, LiveEventLongAgo>>, <<Dated(GroupedEvent, Day(10)), QuietEvent>> }

\* the league lists of up to n leagues
LeagueListsUpTo(n) ==
    { [i \in 1..m |-> [id |-> LeagueId(RefAt(i)), slug |-> RefAt(i)]] : m \in 0..n }

\* buildGroupingsForLeague(leagueEvents), from the e-th event on
RECURSIVE buildFrom(_, _, _, _, _)
buildFrom(c, entries, leagueEvents, e, n) ==
    IF e > Len(leagueEvents) THEN entries
    ELSE buildFrom(c, addEventLeague(c, entries, leagueEvents[e], e, n), leagueEvents, e + 1, n)

buildGroupingsForLeague(c, leagueEvents, n) == buildFrom(c, <<>>, leagueEvents, 1, n)

\* leagueEvents.filter((e) => isGameInTimeWindow(e.date))
RECURSIVE filterInWindow(_, _)
filterInWindow(leagueEvents, n) ==
    IF leagueEvents = <<>> THEN <<>>
    ELSE (IF isGameInTimeWindow(Head(leagueEvents).date, n) THEN <<Head(leagueEvents)>> ELSE <<>>)
         \o filterInWindow(Tail(leagueEvents), n)

\* filteredEvents.some((e) => e.status?.type?.state === "in")
someEventLive(evs) == \E i \in 1..Len(evs) : evs[i].state = "in"

\* leagueEvents.some((e) => (e.groupings || []).some((g) =>
\*    (g.competitions || []).some((c) => c.status?.type?.state === "in"))
\*    || e.status?.type?.state === "in")
someMatchOrEventLive(evs) ==
    \E i \in 1..Len(evs) :
        \/ \E g \in 1..Len(listOrEmpty(evs[i].groupings)) :
              LET comps == listOrEmpty(evs[i].groupings.list[g].competitions)
              IN  \E p \in 1..Len(comps) : comps[p].state = "in"
        \/ evs[i].state = "in"

\* what the callback of leagues.map returns; shows = FALSE stands for null
LeagueRow(league, shows, filteredEvents, groupings, hasLiveGames) ==
    [league |-> league, shows |-> shows, filteredEvents |-> filteredEvents,
     groupings |-> groupings, hasLiveGames |-> hasLiveGames]

leagueRow(c, league, leagueEvents, n) ==
    IF c = "App"
    THEN LET filteredEvents == filterInWindow(leagueEvents, n)
         IN  LeagueRow(league, filteredEvents # <<>>, filteredEvents, <<>>,
                       someEventLive(filteredEvents))
    ELSE LET groupings == buildGroupingsForLeague(c, leagueEvents, n)
         IN  LeagueRow(league, groupings # <<>>, <<>>, groupings,
                       someMatchOrEventLive(leagueEvents))

\* .filter(Boolean)
RECURSIVE dropNulls(_)
dropNulls(rows) ==
    IF rows = <<>> THEN <<>>
    ELSE (IF Head(rows).shows THEN <<Head(rows)>> ELSE <<>>) \o dropNulls(Tail(rows))

\* the comparator of the sort
liveFirst(a, b) ==
    IF a.hasLiveGames /\ ~b.hasLiveGames THEN -1
    ELSE IF ~a.hasLiveGames /\ b.hasLiveGames THEN 1
    ELSE 0

\* a sort that puts an element in front of the elements it compares equal to
RECURSIVE insertBeforeEquals(_, _)
insertBeforeEquals(sorted, x) ==
    IF sorted = <<>> THEN <<x>>
    ELSE IF liveFirst(x, Head(sorted)) <= 0 THEN <<x>> \o sorted
    ELSE <<Head(sorted)>> \o insertBeforeEquals(Tail(sorted), x)

\* Array.prototype.sort is stable: an element goes in front of the first
\* element it comes before, behind those it compares equal to
RECURSIVE insertSorted(_, _)
insertSorted(sorted, x) ==
    IF sorted = <<>> THEN <<x>>
    ELSE IF liveFirst(x, Head(sorted)) < 0 THEN <<x>> \o sorted
    ELSE <<Head(sorted)>> \o insertSorted(Tail(sorted), x)

RECURSIVE sortFrom(_, _, _)
sortFrom(sorted, rows, i) ==
    IF i > Len(rows) THEN sorted ELSE sortFrom(insertSorted(sorted, rows[i]), rows, i + 1)

sortLiveFirst(rows) == sortFrom(<<>>, rows, 1)

RenderInit ==
    /\ client \in RenderClients
    /\ leaguesServer = "api"
    /\ sbServer = "slug"
    /\ oddsServer = "api"
    /\ pc = "done"
    /\ leagues \in LeagueListsUpTo(MaxLeagues)
    /\ scores \in [ {leagues[i].id : i \in 1..Len(leagues)} -> LeagueScoreboards ]
    /\ odds = EmptyMap
    /\ loading = FALSE
    /\ error = "null"
    /\ leaguesReq = LeaguesIdle
    /\ sbReqs = <<>>
    /\ oddsReqs = <<>>
    /\ events = <<>>
    /\ now \in NowDays
    /\ buildPc = "idle"
    /\ cursor = 0
    /\ map = <<>>
    /\ tournaments = <<>>
    /\ builds = 0
    /\ previous = <<>>
    /\ OthersIdle

\* the component renders; the clock may have moved on since the last render
Render ==
    /\ ~loading /\ error = "null"
    /\ now' \in {n \in NowDays : n >= now}
    /\ presented' = sortLiveFirst(dropNulls(
            [i \in 1..Len(leagues) |->
                leagueRow(client, leagues[i], eventsOf(scores, leagues[i].id), now')]))
    /\ rendered' = TRUE
    /\ UNCHANGED cycleVars
    /\ UNCHANGED <<events, buildPc, cursor, map, tournaments, builds, previous>>
    /\ UNCHANGED <<arg, result, loadPc, directReq, proxyReq, cycle>>
    /\ UNCHANGED extraVars

RenderNext == Render

RenderSpec == RenderInit /\ [][RenderNext]_vars

\* where the league stands in the league list
PositionOf(league) == CHOOSE i \in 1..Len(leagues) : leagues[i] = league

MaxPrice == 250        \* largest price, either sign, the function is given

NumString(x) == [k |-> "numstring", n |-> x]
Text == [k |-> "text", n |-> 0]
EmptyString == [k |-> "emptystring", n |-> 0]

OddsValues ==
    {Undef, Null, Text, EmptyString}
    \cup {Num(x) : x \in -MaxPrice..MaxPrice}
    \cup {NumString(x) : x \in {-200, 0, 150}}

NoPercentage == [k |-> "null", tenths |-> 0]
Percentage(t) == [k |-> "percent", tenths |-> t]

\* !odds
falsy(v) == v.k \in {"undefined", "null", "emptystring"} \/ (v.k = "number" /\ v.n = 0)

\* Number(odds), with Number.isNaN(n) for what does not read as a number
isNaNNumber(v) == v.k \notin {"number", "numstring"}

Abs(x) == IF x < 0 THEN -x ELSE x

\* (p * 100).toFixed(1) for p = num / den, in tenths: the nearest tenth, the
\* larger one of two that are equally near
toFixed1(num, den) == (2000 * num + den) \div (2 * den)

americanOddsToPercentage(v) ==
    IF falsy(v) THEN NoPercentage
    ELSE IF isNaNNumber(v) THEN NoPercentage
    ELSE IF v.n > 0 THEN Percentage(toFixed1(100, v.n + 100))
    ELSE Percentage(toFixed1(Abs(v.n), Abs(v.n) + 100))

PercentInit ==
    /\ client = "App"
    /\ leaguesServer = "api"
    /\ sbServer = "slug"
    /\ oddsServer = "api"
    /\ pc = "done"
    /\ leagues = <<>>
    /\ scores = EmptyMap
    /\ odds = EmptyMap
    /\ loading = FALSE
    /\ error = "null"
    /\ leaguesReq = LeaguesIdle
    /\ sbReqs = <<>>
    /\ oddsReqs = <<>>
    /\ BuildIdle
    /\ RenderIdle
    /\ LoadIdle
    /\ cycle = 0
    /\ ExtraIdle
    /\ arg \in OddsValues
    /\ result = NotCalled

\* the render calls americanOddsToPercentage(o)
Convert ==
    /\ result = NotCalled
    /\ result' = americanOddsToPercentage(arg)
    /\ UNCHANGED <<rendered, presented, arg, loadPc, directReq, proxyReq, cycle>>
    /\ UNCHANGED extraVars
    /\ UNCHANGED cycleVars
    /\ UNCHANGED buildVars

PercentNext == Convert

PercentSpec == PercentInit /\ [][PercentNext]_vars

\* the value as a number, for the values that are one
IsNumeric(v) == v.k \in {"number", "numstring"}

\* the probability num/den shown as t tenths of a percent, to the nearest tenth
NearestTenth(t, num, den) ==
    /\ 2 * (1000 * num - t * den) <= den
    /\ 2 * (t * den - 1000 * num) <= den

\* C22: for a numeric n > 0 the result is 100/(n+100) and for a numeric
\* n < 0 it is |n|/(|n|+100), as a percentage with one decimal (150 gives
\* 40.0%, -200 gives 66.7%); for 0, null, undefined or a value that is not
\* numeric the result is null.
C22_PercentageAgrees ==
    result # NotCalled =>
        /\ (IsNumeric(arg) /\ arg.n > 0)
           => result.k = "percent" /\ NearestTenth(result.tenths, 100, arg.n + 100)
        /\ (IsNumeric(arg) /\ arg.n < 0)
           => result.k = "percent" /\ NearestTenth(result.tenths, -arg.n, 100 - arg.n)
        /\ (~IsNumeric(arg) \/ arg.n = 0) => result = NoPercentage
        /\ arg = Num(150) => result = Percentage(400)
        /\ arg = Num(-200) => result = Percentage(667)

\* the scoreboard endpoints that answer an object {events: ...}
ProxyServers == {"slug", "part_000"}

\* the provider answered with a body whose events field is an array
UpstreamHasEvents(up) ==
    up.net = "ok" /\ up.body = "object" /\ up.ev.k = "array"

\* C23: the scoreboard proxy answers every request with a body
\* {events: <array>}; for a rejected fetch, a non-2xx answer, a body that does
\* not parse, a null body and a body whose events field is missing or not an
\* array, the body is {events: []}.
C23_ProxyAnswersEventsArray ==
    sbServer \in ProxyServers =>
        \A i \in 1..Len(sbReqs) :
            (sbReqs[i].state = "settled" /\ ~sbReqs[i].threw)
            => /\ sbReqs[i].data.shape = "object"
               /\ sbReqs[i].data.ev.k = "array"
               /\ ~UpstreamHasEvents(sbReqs[i].up) => sbReqs[i].data.ev.list = <<>>

(***************************************************************************)
(* The single-source client (part_002): load, lines 56-95, and extractOdds,*)
(* lines 23-54.  load asks the provider's scoreboard directly and falls    *)
(* back to /api/scoreboard/atp.                                            *)
(***************************************************************************)
MaxCycles == 2         \* how many cycles the Refresh control may start

\* extractOdds, for the competitions of one list: a competition without
\* odds[0] adds nothing; homePrice and awayPrice are left out
RECURSIVE oddsOfCompetitions(_)
oddsOfCompetitions(comps) ==
    IF comps = <<>> THEN <<>>
    ELSE (IF Head(comps).ml.present
          THEN << [key |-> Head(comps).id,
                   value |-> PairBody(Coalesce(Head(comps).ml.home, Null),
                                      Coalesce(Head(comps).ml.away, Null))] >>
          ELSE <<>>) \o oddsOfCompetitions(Tail(comps))

\* extractOdds(eventsList): the map it hands to setOdds
extractOdds(eventsList) ==
    fromEntries(Concat([e \in 1..Len(eventsList) |->
        oddsOfCompetitions(eventsList[e].competitions)
        \o Concat([g \in 1..Len(eventsList[e].groupings) |->
                    oddsOfCompetitions(eventsList[e].groupings[g].competitions)])]))

\* how the request to /api/scoreboard/atp can end for the client: the fetch
\* rejects, the answer is not 2xx, its body does not parse, or it is
\* the body of the handler
ProxyOutcomes == {"reject", "status", "badjson", "ok"}

\* the direct request gave at least one event (lines 64-70 do not throw)
directEvents(up) ==
    IF up.net = "ok" /\ up.ok /\ up.body = "object" /\ up.ev.k = "array" /\ up.ev.list # <<>>
    THEN up.ev.list ELSE <<>>

\* lines 79-85 and 89: the events taken from the proxy's answer
proxyEvents(net, data) ==
    IF net # "ok" THEN <<>>                                   \* catch (localErr)
    ELSE IF data.shape = "object" /\ data.ev.k = "array" THEN data.ev.list
    ELSE <<>>

LoadInit ==
    /\ client = "part_002"
    /\ leaguesServer = "api"
    /\ sbServer \in SbServers
    /\ oddsServer = "api"
    /\ pc = "none"
    /\ leagues = <<>>
    /\ scores = EmptyMap
    /\ odds = EmptyMap
    /\ loading = TRUE
    /\ error = "null"
    /\ leaguesReq = LeaguesIdle
    /\ sbReqs = <<>>
    /\ oddsReqs = <<>>
    /\ BuildIdle
    /\ RenderIdle
    /\ PercentIdle
    /\ loadPc = "mounted"
    /\ directReq = DirectIdle
    /\ proxyReq = ProxyIdle
    /\ cycle = 0
    /\ ExtraIdle

\* lines 88-94: setEvents, extractOdds, finally setLoading(false)
Finish(evts) ==
    /\ events' = evts
    /\ odds' = extractOdds(evts)
    /\ loading' = FALSE
    /\ loadPc' = "done"

\* useEffect(() => { load(); }, [load]), or the Refresh button, which is
\* rendered only when loading is false: setLoading(true), fetch(ESPN_SCOREBOARD)
LoadStart ==
    /\ \/ loadPc = "mounted" /\ UNCHANGED cycle
       \/ loadPc = "done" /\ ~loading /\ cycle < MaxCycles /\ cycle' = cycle + 1
    /\ loading' = TRUE
    /\ directReq' = [DirectIdle EXCEPT !.state = "pending"]
    /\ proxyReq' = ProxyIdle
    /\ loadPc' = "direct"
    /\ UNCHANGED <<client, leaguesServer, sbServer, oddsServer, pc, leagues, scores, odds,
                   error, leaguesReq, sbReqs, oddsReqs>>
    /\ UNCHANGED <<events, now, buildPc, cursor, map, tournaments, builds, previous>>
    /\ UNCHANGED <<rendered, presented, arg, result>>
    /\ UNCHANGED extraVars

\* load that asks the proxy whatever the direct request gave
DirectSettleAlwaysFallingBack ==
    /\ loadPc = "direct"
    /\ \E up \in ScoreboardUpstream("atp") :
        /\ directReq' = [state |-> "settled", up |-> up]
        /\ proxyReq' = [ProxyIdle EXCEPT !.state = "pending"]
        /\ loadPc' = "proxy"
        /\ UNCHANGED <<events, odds, loading>>
    /\ UNCHANGED <<client, leaguesServer, sbServer, oddsServer, pc, leagues, scores,
                   error, leaguesReq, sbReqs, oddsReqs>>
    /\ UNCHANGED <<now, buildPc, cursor, map, tournaments, builds, previous>>
    /\ UNCHANGED <<rendered, presented, arg, result, cycle>>
    /\ UNCHANGED extraVars

\* the direct request settles: lines 63-76
DirectSettle ==
    /\ loadPc = "direct"
    /\ \E up \in ScoreboardUpstream("atp") :
        /\ directReq' = [state |-> "settled", up |-> up]
        /\ IF directEvents(up) # <<>>
           THEN /\ Finish(directEvents(up))
                /\ UNCHANGED proxyReq
           ELSE /\ proxyReq' = [ProxyIdle EXCEPT !.state = "pending"]
                /\ loadPc' = "proxy"
                /\ UNCHANGED <<events, odds, loading>>
    /\ UNCHANGED <<client, leaguesServer, sbServer, oddsServer, pc, leagues, scores,
                   error, leaguesReq, sbReqs, oddsReqs>>
    /\ UNCHANGED <<now, buildPc, cursor, map, tournaments, builds, previous>>
    /\ UNCHANGED <<rendered, presented, arg, result, cycle>>
    /\ UNCHANGED extraVars

\* the request to /api/scoreboard/atp settles: lines 78-94
ProxySettle ==
    /\ loadPc = "proxy"
    /\ \E net \in ProxyOutcomes :
       \E up \in (IF net = "ok" THEN ScoreboardUpstream("atp") ELSE {NoScoreboard}) :
        LET data == IF net = "ok" THEN scoreboardHandler(sbServer, up) ELSE NullData
        IN  /\ proxyReq' = [state |-> "settled", net |-> net, up |-> up, data |-> data]
            /\ Finish(proxyEvents(net, data))
    /\ UNCHANGED <<client, leaguesServer, sbServer, oddsServer, pc, leagues, scores,
                   error, leaguesReq, sbReqs, oddsReqs>>
    /\ UNCHANGED <<now, buildPc, cursor, map, tournaments, builds, previous>>
    /\ UNCHANGED <<rendered, presented, arg, result, directReq, cycle>>
    /\ UNCHANGED extraVars

LoadNext ==
    \/ LoadStart
    \/ DirectSettle
    \/ ProxySettle

LoadSpec == LoadInit /\ [][LoadNext]_vars


\* the direct request failed, answered non-2xx, or gave a payload without
\* events or with an empty events list
DirectGaveNoEvents ==
    \/ directReq.up.net = "reject"
    \/ ~directReq.up.ok
    \/ directReq.up.body # "object"
    \/ directReq.up.ev.k # "array"
    \/ directReq.up.ev.list = <<>>

ProxyFailed == proxyReq.state = "settled" /\ proxyReq.net \in {"reject", "status"}

\* C24: in load of the single-source client the proxy /api/scoreboard/atp is
\* requested only after the direct request has settled without giving an
\* event, never when it gave at least one event; and when the proxy request
\* fails or answers non-2xx the cycle ends with no events, an empty odds map
\* and loading false.
C24_ProxyOnlyAfterDirectFailed ==
    /\ proxyReq.state # "idle" => directReq.state = "settled" /\ DirectGaveNoEvents
    /\ (loadPc = "done" /\ ProxyFailed) =>
          events = <<>> /\ odds = EmptyMap /\ ~loading

C24_Witness ==
    /\ loadPc = "done"
    /\ directReq.up.ok /\ directReq.up.ev = ArrayEv(<<>>)
    /\ ProxyFailed
    /\ proxyReq.net = "status"


(***************************************************************************)
(* The cycles under the assumption that every issued request settles: the  *)
(* effect that starts the first cycle runs, every pending request resolves *)
(* or rejects, and the continuation of a settled await runs.  Pressing     *)
(* Refresh is left to the user.                                            *)
(***************************************************************************)
FairInit == Init \/ LoadInit

FairNext == Next \/ LoadNext

FairSpec ==
    /\ FairInit
    /\ [][FairNext]_vars
    /\ WF_vars(Next)
    /\ WF_vars(LoadStart /\ loadPc = "mounted")
    /\ WF_vars(DirectSettle \/ ProxySettle)

\* the cycle has run to its end
CycleEnded == pc = "done" \/ loadPc = "done"

\* C25: every cycle terminates.  When every issued request resolves or
\* rejects, loading becomes false after a cycle starts, whatever stage fails,
\* and loading is not true once the cycle has run past its last request.
C25_CycleTerminates ==
    /\ loading ~> ~loading
    /\ [](CycleEnded => ~loading)

C25_Witness ==
    /\ pc = "done"
    /\ ~loading
    /\ \E i \in 1..Len(sbReqs) : sbReqs[i].threw
    /\ \E j \in 1..Len(oddsReqs) : oddsReqs[j].threw


(***************************************************************************)
(* The Refresh control of the aggregating client (App.jsx:200-205).  The   *)
(* button is part of the main render, which is reached only when loading   *)
(* is false (169-175) and error is null (177-183).                         *)
(***************************************************************************)
MaxRefreshes == 1      \* how many times Refresh is pressed

\* a Refresh button that is rendered while a cycle is loading
RefreshWhileLoading ==
    /\ error = "null"
    /\ pc # "mounted"
    /\ cycle < MaxRefreshes
    /\ cycle' = cycle + 1
    /\ loading' = TRUE
    /\ error' = "null"
    /\ leaguesReq' = LeaguesPending
    /\ sbReqs' = <<>>
    /\ oddsReqs' = <<>>
    /\ pc' = "leagues"
    /\ UNCHANGED <<client, leaguesServer, sbServer, oddsServer, leagues, scores, odds>>
    /\ UNCHANGED buildVars
    /\ UNCHANGED <<rendered, presented, arg, result, loadPc, directReq, proxyReq>>
    /\ UNCHANGED extraVars

\* onClick={fetchLeaguesAndScores}: a new cycle starts, up to its first
\* await; leagues, scores and odds keep their values until the cycle sets them
Refresh ==
    /\ ~loading
    /\ error = "null"
    /\ cycle < MaxRefreshes
    /\ cycle' = cycle + 1
    /\ loading' = TRUE
    /\ error' = "null"
    /\ leaguesReq' = LeaguesPending
    /\ sbReqs' = <<>>
    /\ oddsReqs' = <<>>
    /\ pc' = "leagues"
    /\ UNCHANGED <<client, leaguesServer, sbServer, oddsServer, leagues, scores, odds>>
    /\ UNCHANGED buildVars
    /\ UNCHANGED <<rendered, presented, arg, result, loadPc, directReq, proxyReq>>
    /\ UNCHANGED extraVars

RefreshInit ==
    /\ Init
    /\ client = "App"
    /\ leaguesServer = "api"
    /\ sbServer = "slug"
    /\ oddsServer = "api"

RefreshNext ==
    \/ Next
    \/ Refresh

RefreshSpec == RefreshInit /\ [][RefreshNext]_vars

\* a cycle is between its start and its end
InFlight ==
    \/ pc \in {"leagues", "scoreboards", "odds"}
    \/ leaguesReq.state = "pending"
    \/ \E i \in 1..Len(sbReqs) : sbReqs[i].state = "pending"
    \/ \E j \in 1..Len(oddsReqs) : oddsReqs[j].state = "pending"

\* C26: at most one aggregation cycle is in flight.  Refresh starts a cycle
\* only in a state where loading is false, and in such a state no cycle is
\* in flight, so no request of an older cycle is left to settle into the
\* state of a newer one.
C26_OneCycleInFlight ==
    [][cycle' # cycle => (~loading /\ ~InFlight)]_vars

\* a second cycle, started by Refresh, has run to its end
C26_Witness ==
    /\ cycle = 1
    /\ pc = "done"
    /\ ~loading
    /\ Len(oddsReqs) > 0


(***************************************************************************)
(* The collapsed flags of the groupings in part_002: toggleGroup, lines    *)
(* 149-151, called with the key of a grouping the render shows (327-338).  *)
(* collapsedGroups is the set of keys whose flag is true: the render reads *)
(* a flag as !!collapsedGroups[key], so false and absent are alike.        *)
(* collapsedTournaments is left out: every tournament is shown expanded.   *)
(***************************************************************************)
\* names the provider may give that hold the two bars
DelimTournamentEvent ==
    Event("e9", "Halle||Men", "undefined", "undefined",
          List(<< Grouping("Doubles", "undefined", "undefined",
                           List(<<UpstreamComp("c10")>>), NoList, "undefined") >>),
          NoList, NoList, NoList, "undefined")
DelimGroupingEvent ==
    Event("e10", "Halle", "undefined", "undefined",
          List(<< Grouping("Men||Doubles", "undefined", "undefined",
                           List(<<UpstreamComp("c11")>>), NoList, "undefined") >>),
          NoList, NoList, NoList, "undefined")

ToggleEvents ==
    { Dated(e, Day(10)) : e \in { GroupedEvent, FlatEvent, NoIdEvent,
                                  DelimTournamentEvent, DelimGroupingEvent } }

ToggleInit ==
    /\ client = "part_002"
    /\ leaguesServer = "api"
    /\ sbServer = "slug"
    /\ oddsServer = "api"
    /\ pc = "done"
    /\ leagues = <<>>
    /\ scores = EmptyMap
    /\ odds = EmptyMap
    /\ loading = FALSE
    /\ error = "null"
    /\ leaguesReq = LeaguesIdle
    /\ sbReqs = <<>>
    /\ oddsReqs = <<>>
    /\ events \in SeqsUpTo(ToggleEvents, MaxLeagueEvents)
    /\ now \in NowDays
    /\ buildPc = "idle"
    /\ cursor = 0
    /\ map = <<>>
    /\ tournaments = <<>>
    /\ builds = 0
    /\ previous = <<>>
    /\ OthersIdle

\* the keys of the groupings the render shows
shownKeys == { NodeOf(tn).key : tn \in Nodes }

\* setCollapsedGroups((p) => ({...p, [uniqueKey]: !p[uniqueKey]}))
toggle(p, uniqueKey) ==
    IF uniqueKey \in p THEN p \ {uniqueKey} ELSE p \cup {uniqueKey}

\* onClick={() => toggleGroup(groupingKey)} on the header of a shown grouping
ToggleGroup ==
    /\ buildPc = "built"
    /\ \E groupingKey \in shownKeys :
        collapsedGroups' = toggle(collapsedGroups, groupingKey)
    /\ UNCHANGED cycleVars
    /\ UNCHANGED buildVars
    /\ UNCHANGED <<rendered, presented, arg, result, loadPc, directReq, proxyReq, cycle>>
    /\ UNCHANGED resolveVars

ToggleNext ==
    \/ BuildNext
    \/ ToggleGroup

ToggleSpec == ToggleInit /\ [][ToggleNext]_vars

\* the (tournament name, grouping display name) pair of a node
NamePair(tn) == <<tournaments[tn[1]].tournamentName, NodeOf(tn).displayName>>

\* const collapsed = !!collapsedGroups[groupingKey]
Collapsed(tn) == NodeOf(tn).key \in collapsedGroups

\* C27: grouping keys are injective over the hierarchy.  Two grouping nodes
\* with different (tournament name, display name) pairs never have the same
\* key, so the collapsed flag of one is not the flag of the other.
C27_GroupingKeysInjective ==
    Built =>
        \A a, b \in Nodes :
            NamePair(a) # NamePair(b) => NodeOf(a).key # NodeOf(b).key


(***************************************************************************)
(* The competitions the odds stage asks for, over the events the builder   *)
(* is given: part_004:57-70 and part_001:73-89.                            *)
(***************************************************************************)
idsOf(comps) == [p \in 1..Len(comps) |-> comps[p].id]

\* the ids one event adds to allCompetitions
competitionIdsOfEvent(c, event) ==
    Concat([g \in 1..Len(listOrEmpty(event.groupings)) |->
               idsOf(listOrEmpty(event.groupings.list[g].competitions))])
    \o (IF c = "part_001" THEN idsOf(listOrEmpty(event.competitions)) ELSE <<>>)

\* allCompetitions of the league, as the ids the odds requests are made with
allCompetitionIds(c, leagueEvents) ==
    Concat([e \in 1..Len(leagueEvents) |-> competitionIdsOfEvent(c, leagueEvents[e])])

\* the ids the odds stage of the cycle made a request for
RequestedIds ==
    { allCompetitionIds(client, events)[j] : j \in 1..Len(allCompetitionIds(client, events)) }

LeagueClients == {"part_001", "part_004"}

\* C28: every competition that is an item of the presented hierarchy had its
\* odds requested under its own id in the cycle that fetched the events, be
\* it listed under a grouping, listed at event level or synthesized from the
\* event.
C28_EveryItemHadOddsRequested ==
    (Built /\ client \in LeagueClients) =>
        \A x \in AllItems : x.item.competition.id \in RequestedIds


\* the events of the league a row stands for
EventsOfRow(row) == scores[row.league.id]

\* something the row shows is in play: an event that passed the filter, or a
\* competition that is an item of the row's groupings, or the event of one
ShownLive(row) ==
    \/ \E e \in 1..Len(row.filteredEvents) : row.filteredEvents[e].state = "in"
    \/ \E g \in 1..Len(row.groupings) :
       \E i \in 1..Len(row.groupings[g].items) :
          LET item == row.groupings[g].items[i]
          IN  \/ item.competition.state = "in"
              \/ EventsOfRow(row)[item.event].state = "in"

\* C29: a league is ordered as live only on account of what it displays.
\* Whenever hasLiveGames is true for a league, a competition or event shown
\* under it (one that passed the time-window filter) has state "in".
C29_LiveOnlyOnWhatIsShown ==
    rendered =>
        \A i \in 1..Len(presented) : presented[i].hasLiveGames => ShownLive(presented[i])


(***************************************************************************)
(* The handler of api/leagues.js as it runs, lines 1-33: the directory is  *)
(* fetched, refs.map issues one fetch per reference, the fetches settle in *)
(* any order, and Promise.all resolves with the results by position.       *)
(***************************************************************************)
MaxResolverRefs == 3     \* most references in the directory the resolver reads

ResolverDirectories ==
    { d \in DirectoryUpstream : ~d.hasItems }
    \cup
    { [net |-> "ok", body |-> "object", hasItems |-> TRUE,
       refs |-> [i \in 1..n |-> RefAt(i)]] : n \in 0..MaxResolverRefs }

RefPending == [state |-> "pending", outcome |-> "reject"]

\* what the callback of refs.map returns for the i-th reference; has = FALSE
\* stands for null.  from records the position of the reference.
resolved(i, ref, outcome) ==
    CASE outcome = "ok" ->
            [has |-> TRUE, from |-> i, item |-> LeagueItem("undefined", LeagueId(ref), ref)]
      [] outcome = "errbody" ->
            [has |-> TRUE, from |-> i, item |-> LeagueItem("undefined", "undefined", "undefined")]
      [] OTHER ->
            [has |-> FALSE, from |-> i, item |-> LeagueItem("undefined", "undefined", "undefined")]

\* .filter(Boolean) over the results taken in the given order of positions
RECURSIVE resultsIn(_, _, _)
resultsIn(order, refList, fetches) ==
    IF order = <<>> THEN <<>>
    ELSE LET i == Head(order)
             r == resolved(i, refList[i], fetches[i].outcome)
         IN  (IF r.has THEN << [from |-> r.from, item |-> r.item] >> ELSE <<>>)
             \o resultsIn(Tail(order), refList, fetches)

ResolveInit ==
    /\ client = "App"
    /\ leaguesServer = "api"
    /\ sbServer = "slug"
    /\ oddsServer = "api"
    /\ pc = "leagues"
    /\ leagues = <<>>
    /\ scores = EmptyMap
    /\ odds = EmptyMap
    /\ loading = TRUE
    /\ error = "null"
    /\ leaguesReq = LeaguesPending
    /\ sbReqs = <<>>
    /\ oddsReqs = <<>>
    /\ BuildIdle
    /\ RenderIdle
    /\ PercentIdle
    /\ LoadIdle
    /\ cycle = 0
    /\ collapsedGroups = {}
    /\ resolverPc = "start"
    /\ prefix = <<>>
    /\ refFetches = <<>>
    /\ completed = <<>>
    /\ response = NoResponse

\* lines 3-12: the directory settles; on a failure the catch answers 500,
\* otherwise refs.map issues every fetch
DirectorySettle ==
    /\ resolverPc = "start"
    /\ \E dir \in ResolverDirectories :
        IF dir.net = "reject" \/ dir.body \in {"badjson", "null"}
        THEN /\ response' = [status |-> 500, list |-> <<>>]
             /\ resolverPc' = "answered"
             /\ UNCHANGED <<prefix, refFetches>>
        ELSE /\ prefix' = Slice(dir.refs, LeaguePrefixApi)
             /\ refFetches' = [i \in 1..Len(Slice(dir.refs, LeaguePrefixApi)) |-> RefPending]
             /\ resolverPc' = "fetching"
             /\ UNCHANGED response
    /\ UNCHANGED completed
    /\ UNCHANGED cycleVars
    /\ UNCHANGED buildVars
    /\ UNCHANGED <<rendered, presented, arg, result, loadPc, directReq, proxyReq, cycle,
                   collapsedGroups>>

\* lines 13-25: the fetch of the i-th reference settles
RefSettle(i) ==
    /\ resolverPc = "fetching"
    /\ i \in 1..Len(refFetches)
    /\ refFetches[i].state = "pending"
    /\ \E outcome \in RefOutcomes :
        refFetches' = [refFetches EXCEPT ![i] = [state |-> "settled", outcome |-> outcome]]
    /\ completed' = Append(completed, i)
    /\ UNCHANGED <<resolverPc, prefix, response>>
    /\ UNCHANGED cycleVars
    /\ UNCHANGED buildVars
    /\ UNCHANGED <<rendered, presented, arg, result, loadPc, directReq, proxyReq, cycle,
                   collapsedGroups>>

\* a handler that collects the results as the fetches settle
ResolveAnswerInCompletionOrder ==
    /\ resolverPc = "fetching"
    /\ AllSettled(refFetches)
    /\ response' = [status |-> 200, list |-> resultsIn(completed, prefix, refFetches)]
    /\ resolverPc' = "answered"
    /\ UNCHANGED <<prefix, refFetches, completed>>
    /\ UNCHANGED cycleVars
    /\ UNCHANGED buildVars
    /\ UNCHANGED <<rendered, presented, arg, result, loadPc, directReq, proxyReq, cycle,
                   collapsedGroups>>

\* lines 11 and 29: Promise.all resolves with the results by position, and
\* the handler answers leagues.filter(Boolean)
ResolveAnswer ==
    /\ resolverPc = "fetching"
    /\ AllSettled(refFetches)
    /\ response' = [status |-> 200,
                    list |-> resultsIn([i \in 1..Len(prefix) |-> i], prefix, refFetches)]
    /\ resolverPc' = "answered"
    /\ UNCHANGED <<prefix, refFetches, completed>>
    /\ UNCHANGED cycleVars
    /\ UNCHANGED buildVars
    /\ UNCHANGED <<rendered, presented, arg, result, loadPc, directReq, proxyReq, cycle,
                   collapsedGroups>>

ResolveNext ==
    \/ DirectorySettle
    \/ \E i \in 1..Len(refFetches) : RefSettle(i)
    \/ ResolveAnswer

ResolveSpec == ResolveInit /\ [][ResolveNext]_vars

\* the descriptors of the answer, without the record of where they came from
AnsweredItems == [a \in 1..Len(response.list) |-> response.list[a].item]

\* C30: the order of the league resolver's answer does not depend on the
\* order in which the reference fetches settle: the descriptors are in the
\* relative order of their references in the directory prefix.
C30_AnswerInDirectoryOrder ==
    (resolverPc = "answered" /\ response.status = 200) =>
        /\ \A a, b \in 1..Len(response.list) :
              a < b => response.list[a].from < response.list[b].from
        /\ AnsweredItems =
              resolveRefs(prefix, [i \in 1..Len(prefix) |-> refFetches[i].outcome])

\* the fetches settled last to first and every one gave a descriptor
C30_Witness ==
    /\ resolverPc = "answered"
    /\ completed = <<3, 2, 1>>
    /\ Len(response.list) = 3
    /\ \A i \in 1..3 : refFetches[i].outcome = "ok"

====
